---- MODULE Spec2Model ----
(***************************************************************************)
(* phopy: the scan-classify-plan-execute pipeline.                         *)
(*                                                                         *)
(* Planner.Plan / Planner.scan (internal/app/planner.go), the worker pool  *)
(* of scan, and Executor.Execute (internal/app/executor.go), driven        *)
(* through the FileSystem and ExifReader interfaces.  Strings are          *)
(* sequences of one-character strings, times are integers, a *time.Time    *)
(* is <<>> (nil) or <<t>>.                                                 *)
(***************************************************************************)
EXTENDS Integers, Sequences, FiniteSets, TLC

(***************************************************************************)
(* Bounds of the model.                                                    *)
(***************************************************************************)
\* the largest number of directory entries the source tree holds
MaxFiles == 2
\* the largest value of Planner.ExifWorkers tried (0 selects runtime.NumCPU())
MaxExifWorkers == 1
\* runtime.NumCPU() of the host
NumCPU == 2
\* the largest number of OverrideItems in the plan the TUI is handed
MaxOverrides == 1
\* the largest number of candidates the scan reports progress for to the TUI
MaxScanTotal == 1
\* the largest number of commands of the TUI running at once
MaxCmds == 2
\* the largest number of items deriveRange is called with
MaxItems == 3
\* the latest capture time of an item deriveRange is called with
MaxTime == 3

(***************************************************************************)
(* Strings: bytes, strings.ToLower, string comparison, path/filepath.      *)
(***************************************************************************)
\* the printable ASCII characters, in code order, starting at code 32 (the three
\* characters a string literal cannot hold are spelled out)
Printable ==
  << " ", "!", "QUOTE", "#", "$", "%", "&", "'", "(", ")", "*", "+", ",", "-", ".", "/",
     "0", "1", "2", "3", "4", "5", "6", "7", "8", "9", ":", ";", "<", "=", ">", "?",
     "@", "A", "B", "C", "D", "E", "F", "G", "H", "I", "J", "K", "L", "M", "N", "O",
     "P", "Q", "R", "S", "T", "U", "V", "W", "X", "Y", "Z", "[", "BACKSLASH", "]", "^", "_",
     "BACKTICK", "a", "b", "c", "d", "e", "f", "g", "h", "i", "j", "k", "l", "m", "n", "o",
     "p", "q", "r", "s", "t", "u", "v", "w", "x", "y", "z", "{", "|", "}", "~" >>

\* the byte value of each character
CodeOf ==
  [c \in { Printable[i] : i \in 1..Len(Printable) } |->
     31 + (CHOOSE i \in 1..Len(Printable) : Printable[i] = c)]

\* the byte value of a character
Code(c) == CodeOf[c]

\* unicode.ToLower on each ASCII character: 'A'..'Z' map to 'a'..'z'
LowerOf ==
  [c \in DOMAIN CodeOf |->
     IF CodeOf[c] >= CodeOf["A"] /\ CodeOf[c] <= CodeOf["Z"]
       THEN Printable[CodeOf[c] + (CodeOf["a"] - CodeOf["A"]) - 31]
       ELSE c]

\* unicode.ToLower on a character
ToLowerChar(c) == LowerOf[c]

\* strings.ToLower
ToLower(s) == [i \in 1..Len(s) |-> ToLowerChar(s[i])]

\* Go's s < t on strings: bytewise lexicographic order
RECURSIVE StrLess(_, _)
StrLess(s, t) ==
  IF t = <<>> THEN FALSE
  ELSE IF s = <<>> THEN TRUE
  ELSE IF Code(Head(s)) < Code(Head(t)) THEN TRUE
  ELSE IF Code(Head(s)) > Code(Head(t)) THEN FALSE
  ELSE StrLess(Tail(s), Tail(t))

\* the index of the last c in s, 0 when there is none
LastIndex(s, c) ==
  IF \E i \in 1..Len(s) : s[i] = c
    THEN CHOOSE i \in 1..Len(s) : s[i] = c /\ \A j \in (i+1)..Len(s) : s[j] # c
    ELSE 0

\* filepath.Base on a clean path: the last element
Base(path) == SubSeq(path, LastIndex(path, "/") + 1, Len(path))

\* filepath.Ext: the suffix from the final dot of the last element, or ""
Ext(path) ==
  LET dot == LastIndex(path, ".")
  IN  IF dot > LastIndex(path, "/") THEN SubSeq(path, dot, Len(path)) ELSE <<>>

\* strings.TrimSuffix
TrimSuffix(s, suffix) ==
  IF Len(suffix) <= Len(s) /\ SubSeq(s, Len(s) - Len(suffix) + 1, Len(s)) = suffix
    THEN SubSeq(s, 1, Len(s) - Len(suffix))
    ELSE s

\* filepath.Rel(base, path) for a path below base: ok is false when Rel fails
Rel(base, path) ==
  IF Len(path) > Len(base) + 1 /\ SubSeq(path, 1, Len(base)) = base
       /\ path[Len(base) + 1] = "/"
    THEN [ok |-> TRUE, rel |-> SubSeq(path, Len(base) + 2, Len(path))]
    ELSE [ok |-> FALSE, rel |-> <<>>]

\* filepath.Join of two clean elements
Join(dir, rel) == dir \o <<"/">> \o rel

(***************************************************************************)
(* internal/domain: the classifier and FileMeta.                           *)
(***************************************************************************)
RawExtensions ==
  { <<".", "a", "r", "w">>, <<".", "c", "r", "2">>, <<".", "c", "r", "3">>,
    <<".", "n", "e", "f">>, <<".", "r", "a", "f">>, <<".", "r", "w", "2">>,
    <<".", "o", "r", "f">>, <<".", "d", "n", "g">> }

JpegExtensions == { <<".", "j", "p", "g">>, <<".", "j", "p", "e", "g">> }

IsRawExtension(ext) == ToLower(ext) \in RawExtensions

\* a JPEG test that tells upper case from lower case
IsJpegExtensionMut(ext) == ext \in JpegExtensions

IsJpegExtension(ext) == ToLower(ext) \in JpegExtensions

NewFileMeta(sourcePath, relativePath, takenAt) ==
  LET name == Base(sourcePath)
      ext  == ToLower(Ext(name))
      base == TrimSuffix(name, Ext(name))
  IN  [ SourcePath   |-> sourcePath,
        RelativePath |-> relativePath,
        Name         |-> name,
        BaseName     |-> ToLower(base),
        Ext          |-> ext,
        TakenAt      |-> takenAt,
        IsRAW        |-> IsRawExtension(ext),
        IsJPEG       |-> IsJpegExtension(ext) ]

\* the zero value FileMeta{}
ZeroMeta ==
  [ SourcePath |-> <<>>, RelativePath |-> <<>>, Name |-> <<>>, BaseName |-> <<>>,
    Ext |-> <<>>, TakenAt |-> 0, IsRAW |-> FALSE, IsJPEG |-> FALSE ]

\* the zero value CopyPlan{}
EmptyPlan ==
  [ Items |-> <<>>, OverrideItems |-> <<>>, SkippedJPEGs |-> 0,
    SkippedRAWsDate |-> 0, SkippedRAWsDupl |-> 0, RangeStart |-> <<>>,
    RangeEnd |-> <<>>, RawCount |-> 0, JpegCount |-> 0, RawOverrides |-> 0,
    JpegOverrides |-> 0, Warnings |-> <<>> ]

(***************************************************************************)
(* The injected capabilities: the source tree WalkDir delivers, Stat, the  *)
(* extractor, and the target tree Exists looks at.                         *)
(***************************************************************************)
SourceDir == <<"/", "s">>

TargetDir == <<"/", "t">>

\* One directory entry of the source tree with what the capabilities answer for
\* it: kind is "file", "dir" or "err" (WalkDir reports an error at the entry);
\* modTime is Stat's ModTime and statOk whether Stat succeeds; exif is <<t>>, the
\* extractor's DateTimeOriginal, or <<>> when the file holds none; target says
\* whether the file's target path exists and existsErr whether stat-ing the
\* target fails with an error other than "not exist".
Entry(path, kind, modTime, exif, statOk, target, existsErr) ==
  [ path |-> path, kind |-> kind, modTime |-> modTime, exif |-> exif,
    statOk |-> statOk, target |-> target, existsErr |-> existsErr ]

\* the entries a source tree is drawn from
Universe ==
  { Entry(<<"/","s","/","a",".","A","R","W">>, "file", 3, <<3>>, TRUE, FALSE, FALSE),
    Entry(<<"/","s","/","a",".","A","R","W">>, "file", 2, <<2>>, TRUE, TRUE, FALSE),
    Entry(<<"/","s","/","A",".","j","p","g">>, "file", 2, <<2>>, TRUE, TRUE, FALSE),
    Entry(<<"/","s","/","B",".","J","P","G">>, "file", 2, <<>>, TRUE, FALSE, FALSE),
    Entry(<<"/","s","/","B",".","J","P","G">>, "file", 2, <<2>>, TRUE, TRUE, TRUE),
    Entry(<<"/","s","/","d","/","B",".","J","P","G">>, "file", 2, <<>>, TRUE, FALSE, FALSE),
    Entry(<<"/","s","/","C",".","A","R","W">>, "file", 1, <<>>, TRUE, FALSE, FALSE),
    Entry(<<"/","s","/","C",".","A","R","W">>, "file", 2, <<1>>, TRUE, FALSE, FALSE),
    Entry(<<"/","s","/","E",".","j","p","e","g">>, "file", 1, <<2>>, TRUE, FALSE, FALSE),
    Entry(<<"/","s","/","G",".","C","r","2">>, "file", 2, <<2>>, FALSE, FALSE, FALSE),
    Entry(<<"/","s","/","H",".","n","e","f">>, "file", 3, <<>>, TRUE, FALSE, FALSE),
    Entry(<<"/","s","/","n",".","t","x","t">>, "file", 2, <<>>, TRUE, FALSE, FALSE),
    Entry(<<"/","s","/","d">>, "dir", 2, <<>>, TRUE, FALSE, FALSE),
    Entry(<<"/","s","/","x">>, "err", 2, <<>>, FALSE, FALSE, FALSE) }

\* the source trees: at most MaxFiles entries, no path twice
SourceTrees ==
  { S \in SUBSET Universe :
      /\ Cardinality(S) <= MaxFiles
      /\ \A e1, e2 \in S : e1.path = e2.path => e1 = e2 }

\* the date bounds --from / --until take: nil or a date
DateBounds == { <<>>, <<2>> }

VARIABLES
  entries,          \* the source tree (and the target tree's facts), fixed per run
  startDate,        \* Plan's startDate: <<>> is nil
  endDate,          \* Plan's endDate
  AllowOverride,    \* Planner.AllowOverride
  ExifWorkers,      \* Planner.ExifWorkers
  cancelled,        \* ctx.Done() is closed
  cancelMidScan,    \* ctx was cancelled while scan was walking or collecting
  pc,               \* the calling goroutine: "walk", "collect", "done", "exec", "execDone"
  toWalk,           \* the entries WalkDir has not delivered yet
  rawPaths,         \* scan's rawPaths
  jpegPaths,        \* scan's jpegPaths
  rawBaseNames,     \* scan's rawBaseNames
  pathsToProcess,   \* scan's pathsToProcess
  skippedJPEGs,     \* scan's skippedJPEGs
  skippedRAWsDupl,  \* scan's skippedRAWsDupl
  wk,               \* the worker goroutines: position, job in hand, result to send
  nextJob,          \* the submitter goroutine: index of the next path to send
  jobsClosed,       \* the submitter has returned and closed jobs
  collected,        \* the collector's loop counter i
  metas,            \* scan's metas
  warnings,         \* scan's warnings
  skippedRAWsDate,  \* scan's skippedRAWsDate
  scanProgress,     \* the Planner.OnProgress calls made, in order
  statCalls,        \* the paths FS.Stat was called with
  exifCalls,        \* the paths Exif.DateTimeOriginal was called with
  existsCalls,      \* the target paths FS.Exists was called with
  plan,             \* the CopyPlan Plan returned
  planErr,          \* the error Plan returned: "" is nil
  prevPlan,         \* <<p>>: the plan an earlier, successful Plan run returned
  includeOverrides, \* Execute's includeOverrides
  itemsToCopy,      \* Execute's itemsToCopy
  copyIdx,          \* Execute's loop index i
  copyCalls,        \* the target paths FS.CopyFile was called with, in order
  copyProgress,     \* the Executor.OnProgress calls made, in order
  execErr,          \* the error Execute returned: "" is nil
  targetFiles       \* the target paths that exist

VARIABLES
  config,           \* tui.Config: DryRun, ExecuteCopy (set or nil)
  m,                \* the tui.Model the tea.Program holds
  prog,             \* the tea.Program: "running", "quit" (Run returned the model), "failed"
  cmds,             \* the tea.Cmd goroutines whose message has not been delivered yet
  planOutcome,      \* what planner.Plan returns in run's goroutine
  planGo,           \* run's planning goroutine: "running" or "done" (planDone closed)
  runPc,            \* run: "tui", "waitPlan", "mkdir", "execute", "returned"
  runErr,           \* the error run returned: "" is nil
  executeCopyCalls, \* the includeOverrides values config.ExecuteCopy was invoked with
  executeCalls,     \* the Executor.Execute calls run made
  mkdirCalls,       \* the number of MkdirAll calls run made
  confirmed         \* the selections shown when Enter was pressed in PhaseConfirm

VARIABLES
  call,             \* a function of the packages called by itself, with its arguments
  ret               \* <<r>>: what the call returned; <<>> before it returns

tuiVars == <<config, m, prog, cmds, planOutcome, planGo, runPc, runErr,
             executeCopyCalls, executeCalls, mkdirCalls, confirmed>>

directVars == <<call, ret>>

inputVars == <<entries, startDate, endDate, AllowOverride>>
walkVars  == <<toWalk, rawPaths, jpegPaths, rawBaseNames>>
filterVars == <<pathsToProcess, skippedJPEGs, skippedRAWsDupl>>
poolVars  == <<wk, nextJob, jobsClosed>>
collectVars == <<collected, metas, warnings, skippedRAWsDate, scanProgress>>
callVars  == <<statCalls, exifCalls, existsCalls>>
planVars  == <<plan, planErr>>
execVars  == <<includeOverrides, itemsToCopy, copyIdx, copyCalls, copyProgress,
               execErr, targetFiles>>
pipelineVars == <<inputVars, ExifWorkers, cancelled, cancelMidScan, pc, walkVars,
                  filterVars, poolVars, collectVars, callVars, planVars, prevPlan,
                  execVars>>
vars == <<pipelineVars, tuiVars, directVars>>

\* the target path of a source path: filepath.Join(targetDir, rel)
TargetOf(path) == Join(TargetDir, Rel(SourceDir, path).rel)

\* the entry at a path
EntryAt(path) == CHOOSE e \in entries : e.path = path

\* FS.Stat
FSStat(path) == [ok |-> EntryAt(path).statOk, modTime |-> EntryAt(path).modTime]

\* the target paths whose stat fails with an error other than "not exist"
ExistsFail == { TargetOf(e.path) : e \in { x \in entries : x.existsErr } }

\* OSFS.Exists: (true, nil), (false, nil) or (false, err)
FSExists(targetPath) ==
  IF targetPath \in ExistsFail THEN [exists |-> FALSE, err |-> "exists"]
  ELSE [exists |-> targetPath \in targetFiles, err |-> ""]

\* exif.Reader.DateTimeOriginal: the context's error when it is cancelled, else
\* the file's DateTimeOriginal or an error when it holds none
ExifRead(path) ==
  IF cancelled THEN [takenAt |-> 0, err |-> "canceled"]
  ELSE IF EntryAt(path).exif = <<>> THEN [takenAt |-> 0, err |-> "noexif"]
  ELSE [takenAt |-> EntryAt(path).exif[1], err |-> ""]

\* a worker count one above a positive ExifWorkers
WorkerCountMut ==
  IF ExifWorkers <= 0 THEN NumCPU ELSE ExifWorkers + 1

\* the worker count scan settles on
WorkerCount ==
  LET n == IF ExifWorkers <= 0 THEN NumCPU ELSE ExifWorkers
  IN  IF n < 1 THEN 1 ELSE n

\* scan's result struct
Result(meta, warning, skip, skipRAWDate, err) ==
  [meta |-> meta, warning |-> warning, skip |-> skip, skipRAWDate |-> skipRAWDate,
   err |-> err]

\* a worker goroutine waiting on the jobs channel
IdleWorker == [pc |-> "recv", path |-> <<>>,
               res |-> Result(ZeroMeta, <<>>, FALSE, FALSE, "")]

ScanStart ==
  /\ cancelled = FALSE
  /\ cancelMidScan = FALSE
  /\ pc = "walk"
  /\ toWalk = entries
  /\ rawPaths = <<>>
  /\ jpegPaths = <<>>
  /\ rawBaseNames = {}
  /\ pathsToProcess = <<>>
  /\ skippedJPEGs = 0
  /\ skippedRAWsDupl = 0
  /\ wk = <<>>
  /\ nextJob = 1
  /\ jobsClosed = FALSE
  /\ collected = 0
  /\ metas = <<>>
  /\ warnings = <<>>
  /\ skippedRAWsDate = 0
  /\ scanProgress = <<>>
  /\ statCalls = {}
  /\ exifCalls = {}
  /\ existsCalls = {}
  /\ plan = EmptyPlan
  /\ planErr = ""

\* tui.NewModel
NewModel ==
  [ Phase |-> "PhaseScanning", Plan |-> [ready |-> FALSE, overrides |-> 0],
    scanCurrent |-> 0, scanTotal |-> 0,
    confirmSelection |-> FALSE, OverridesConfirmed |-> 0, Err |-> FALSE,
    Quitting |-> FALSE ]

\* run has not been started: Plan and Execute are called directly
NoTui ==
  /\ config = [DryRun |-> FALSE, ExecuteCopy |-> FALSE]
  /\ m = NewModel
  /\ prog = "running"
  /\ cmds = <<>>
  /\ planOutcome = [err |-> FALSE, overrides |-> 0, total |-> 0]
  /\ planGo = "running"
  /\ runPc = "tui"
  /\ runErr = ""
  /\ executeCopyCalls = <<>>
  /\ executeCalls = <<>>
  /\ mkdirCalls = 0
  /\ confirmed = <<>>

\* no function is called by itself
NoCall ==
  /\ call = [fn |-> "none"]
  /\ ret = <<>>

Init ==
  /\ NoTui
  /\ NoCall
  /\ entries \in SourceTrees
  /\ startDate \in DateBounds
  /\ endDate \in DateBounds
  /\ AllowOverride \in BOOLEAN
  /\ ExifWorkers \in 0..MaxExifWorkers
  /\ ScanStart
  /\ prevPlan = <<>>
  /\ includeOverrides = FALSE
  /\ itemsToCopy = <<>>
  /\ copyIdx = 0
  /\ copyCalls = <<>>
  /\ copyProgress = <<>>
  /\ execErr = ""
  /\ targetFiles = { TargetOf(e.path) : e \in { x \in entries : x.target } }

(***************************************************************************)
(* The context.                                                            *)
(***************************************************************************)
\* the collector still has a result to receive
Collecting == pc = "collect" /\ collected < Len(pathsToProcess)

Cancel ==
  /\ ~cancelled
  /\ cancelled' = TRUE
  /\ cancelMidScan' = (pc = "walk" \/ Collecting)
  /\ UNCHANGED <<directVars, tuiVars, inputVars, ExifWorkers, pc, walkVars, filterVars, poolVars,
                 collectVars, callVars, planVars, prevPlan, execVars>>

(***************************************************************************)
(* Planner.Plan, entry: the Planner's FS and Exif.                         *)
(***************************************************************************)
\* Plan has been called and has not taken a step
PlanEntered ==
  /\ pc = "walk"
  /\ toWalk = entries
  /\ rawPaths = <<>>
  /\ jpegPaths = <<>>

\* a Plan that looks at FS and Exif only after the walk
PlanNilMut(fsNil, exifNil) ==
  /\ pc = "walk"
  /\ toWalk = {}
  /\ fsNil \/ exifNil
  /\ pc' = "done"
  /\ planErr' = "config"
  /\ plan' = EmptyPlan
  /\ UNCHANGED <<directVars, tuiVars, inputVars, ExifWorkers, cancelled, cancelMidScan, walkVars,
                 filterVars, poolVars, collectVars, callVars, prevPlan, execVars>>

\* the Planner's FS or Exif is nil: Plan returns an error at once
PlanNil(fsNil, exifNil) ==
  /\ PlanEntered
  /\ fsNil \/ exifNil
  /\ pc' = "done"
  /\ planErr' = "config"
  /\ plan' = EmptyPlan
  /\ UNCHANGED <<directVars, tuiVars, inputVars, ExifWorkers, cancelled, cancelMidScan, walkVars,
                 filterVars, poolVars, collectVars, callVars, prevPlan, execVars>>

(***************************************************************************)
(* Planner.scan, phase 1: the walk.                                        *)
(***************************************************************************)
\* the dedup key of a file name: lower-cased, extension stripped
BaseNameOf(name) == ToLower(TrimSuffix(name, Ext(name)))

\* a callback that passes over the entry WalkDir reports an error at
WalkEntryMut(e) ==
  /\ pc = "walk"
  /\ e \in toWalk
  /\ toWalk' = toWalk \ {e}
  /\ UNCHANGED <<pc, planErr>>
  /\ IF e.kind \in {"err", "dir"}
       THEN UNCHANGED <<rawPaths, jpegPaths, rawBaseNames>>
       ELSE LET name == Base(e.path)
                ext  == Ext(name)
            IN  IF IsRawExtension(ext)
                  THEN /\ rawPaths' = Append(rawPaths, e.path)
                       /\ rawBaseNames' = rawBaseNames \cup {BaseNameOf(name)}
                       /\ UNCHANGED jpegPaths
                  ELSE IF IsJpegExtension(ext)
                    THEN /\ jpegPaths' = Append(jpegPaths, e.path)
                         /\ UNCHANGED <<rawPaths, rawBaseNames>>
                    ELSE UNCHANGED <<rawPaths, jpegPaths, rawBaseNames>>
  /\ UNCHANGED <<directVars, tuiVars, inputVars, ExifWorkers, cancelled, cancelMidScan, filterVars,
                 poolVars, collectVars, callVars, plan, prevPlan, execVars>>

\* WalkDir delivers the entry e (in any order) and the callback classifies it; an
\* error at the entry makes scan, and Plan, return it
WalkEntry(e) ==
  /\ pc = "walk"
  /\ e \in toWalk
  /\ toWalk' = toWalk \ {e}
  /\ IF e.kind = "err"
       THEN /\ pc' = "done"
            /\ planErr' = "walk"
            /\ UNCHANGED <<rawPaths, jpegPaths, rawBaseNames>>
       ELSE /\ UNCHANGED <<pc, planErr>>
            /\ IF e.kind = "dir"
                 THEN UNCHANGED <<rawPaths, jpegPaths, rawBaseNames>>
                 ELSE LET name == Base(e.path)
                          ext  == Ext(name)
                      IN  IF IsRawExtension(ext)
                            THEN /\ rawPaths' = Append(rawPaths, e.path)
                                 /\ rawBaseNames' = rawBaseNames \cup {BaseNameOf(name)}
                                 /\ UNCHANGED jpegPaths
                            ELSE IF IsJpegExtension(ext)
                              THEN /\ jpegPaths' = Append(jpegPaths, e.path)
                                   /\ UNCHANGED <<rawPaths, rawBaseNames>>
                              ELSE UNCHANGED <<rawPaths, jpegPaths, rawBaseNames>>
  /\ UNCHANGED <<directVars, tuiVars, inputVars, ExifWorkers, cancelled, cancelMidScan, filterVars,
                 poolVars, collectVars, callVars, plan, prevPlan, execVars>>

(***************************************************************************)
(* Planner.scan, phase 2: the pre-filter, and the start of the pool.       *)
(***************************************************************************)
\* shouldIncludeSource that leaves a file out when FS.Exists fails
ShouldIncludeSourceStrict(path) ==
  IF AllowOverride THEN TRUE
  ELSE LET r == Rel(SourceDir, path)
       IN  IF ~r.ok THEN TRUE
           ELSE /\ FSExists(Join(TargetDir, r.rel)).err = ""
                /\ ~FSExists(Join(TargetDir, r.rel)).exists

\* shouldIncludeSource without the FS.Exists check
ShouldIncludeSourceMut(path) == TRUE

\* Planner.shouldIncludeSource
ShouldIncludeSource(path) ==
  IF AllowOverride THEN TRUE
  ELSE LET r == Rel(SourceDir, path)
       IN  IF ~r.ok THEN TRUE
           ELSE ~FSExists(Join(TargetDir, r.rel)).exists

\* the RAW lookup without lower-casing the JPEG's base name
HasRawSiblingMut(path) == TrimSuffix(Base(path), Ext(Base(path))) \in rawBaseNames

\* the JPEG has a RAW counterpart among the walked files
HasRawSibling(path) == BaseNameOf(Base(path)) \in rawBaseNames

\* the JPEG paths phase 2 does not skip for a RAW counterpart
UnpairedJpegs == SelectSeq(jpegPaths, LAMBDA q : ~HasRawSibling(q))

\* the paths phase 2 keeps: RAW files first, then JPEG files
KeptPaths ==
  SelectSeq(rawPaths, ShouldIncludeSource) \o SelectSeq(UnpairedJpegs, ShouldIncludeSource)

\* a count of the JPEG paths whose RAW counterpart phase 2 keeps
SkippedJpegCountMut ==
  Len(SelectSeq(jpegPaths,
                LAMBDA q : \E i \in 1..Len(rawPaths) :
                             /\ ShouldIncludeSource(rawPaths[i])
                             /\ BaseNameOf(Base(rawPaths[i])) = BaseNameOf(Base(q))))

\* the number of JPEG paths skipped because a RAW counterpart exists
SkippedJpegCount == Len(jpegPaths) - Len(UnpairedJpegs)

\* a duplicate count that takes in the JPEG paths dropped because their target exists
SkippedRawDuplCountMut ==
  Len(rawPaths) + Len(UnpairedJpegs)
    - Len(SelectSeq(rawPaths, ShouldIncludeSource))
    - Len(SelectSeq(UnpairedJpegs, ShouldIncludeSource))

\* the number of RAW paths dropped because their target exists
SkippedRawDuplCount == Len(rawPaths) - Len(SelectSeq(rawPaths, ShouldIncludeSource))

\* the target paths shouldIncludeSource asks FS.Exists about
FilterExistsCalls ==
  IF AllowOverride THEN {}
  ELSE { TargetOf(rawPaths[i]) : i \in 1..Len(rawPaths) }
         \cup { TargetOf(UnpairedJpegs[i]) : i \in 1..Len(UnpairedJpegs) }

\* a phase 2 that creates the target path of every file it keeps
FilterCreatesTargets ==
  /\ pc = "walk"
  /\ toWalk = {}
  /\ pathsToProcess' = KeptPaths
  /\ skippedJPEGs' = SkippedJpegCount
  /\ skippedRAWsDupl' = SkippedRawDuplCount
  /\ existsCalls' = existsCalls \cup FilterExistsCalls
  /\ targetFiles' = targetFiles \cup { TargetOf(KeptPaths[i]) : i \in 1..Len(KeptPaths) }
  /\ wk' = [w \in 1..WorkerCount |-> IdleWorker]
  /\ pc' = "collect"
  /\ UNCHANGED <<directVars, tuiVars, inputVars, ExifWorkers, cancelled, cancelMidScan, walkVars, nextJob,
                 jobsClosed, collectVars, statCalls, exifCalls, planVars, prevPlan,
                 includeOverrides, itemsToCopy, copyIdx, copyCalls, copyProgress, execErr>>

\* WalkDir has returned nil: phase 2 runs, then the workers and the submitter start
Filter ==
  /\ pc = "walk"
  /\ toWalk = {}
  /\ pathsToProcess' = KeptPaths
  /\ skippedJPEGs' = SkippedJpegCount
  /\ skippedRAWsDupl' = SkippedRawDuplCount
  /\ existsCalls' = existsCalls \cup FilterExistsCalls
  /\ wk' = [w \in 1..WorkerCount |-> IdleWorker]
  /\ pc' = "collect"
  /\ UNCHANGED <<directVars, tuiVars, inputVars, ExifWorkers, cancelled, cancelMidScan, walkVars, nextJob,
                 jobsClosed, collectVars, statCalls, exifCalls, planVars, prevPlan,
                 execVars>>

(***************************************************************************)
(* Planner.scan, phase 3: the submitter and the workers.                   *)
(***************************************************************************)
\* the pool's goroutines exist
PoolStarted == wk # <<>>

\* jobs <- path, received by the idle worker w
SubmitJob(w) ==
  /\ PoolStarted
  /\ ~jobsClosed
  /\ nextJob <= Len(pathsToProcess)
  /\ w \in DOMAIN wk
  /\ wk[w].pc = "recv"
  /\ wk' = [wk EXCEPT ![w] = [@ EXCEPT !.pc = "busy", !.path = pathsToProcess[nextJob]]]
  /\ nextJob' = nextJob + 1
  /\ UNCHANGED <<directVars, tuiVars, inputVars, ExifWorkers, cancelled, cancelMidScan, pc, walkVars,
                 filterVars, jobsClosed, collectVars, callVars, planVars, prevPlan,
                 execVars>>

\* the submitter has sent every path: it returns and closes jobs
SubmitterDone ==
  /\ PoolStarted
  /\ ~jobsClosed
  /\ nextJob > Len(pathsToProcess)
  /\ jobsClosed' = TRUE
  /\ UNCHANGED <<directVars, tuiVars, inputVars, ExifWorkers, cancelled, cancelMidScan, pc, walkVars,
                 filterVars, wk, nextJob, collectVars, callVars, planVars, prevPlan,
                 execVars>>

\* the submitter's select takes <-ctx.Done(): it returns and closes jobs
SubmitterCancelled ==
  /\ PoolStarted
  /\ ~jobsClosed
  /\ nextJob <= Len(pathsToProcess)
  /\ cancelled
  /\ jobsClosed' = TRUE
  /\ UNCHANGED <<directVars, tuiVars, inputVars, ExifWorkers, cancelled, cancelMidScan, pc, walkVars,
                 filterVars, wk, nextJob, collectVars, callVars, planVars, prevPlan,
                 execVars>>

\* jobs is closed: the worker's range loop ends
WorkerExit(w) ==
  /\ w \in DOMAIN wk
  /\ wk[w].pc = "recv"
  /\ jobsClosed
  /\ wk' = [wk EXCEPT ![w] = [@ EXCEPT !.pc = "exit"]]
  /\ UNCHANGED <<directVars, tuiVars, inputVars, ExifWorkers, cancelled, cancelMidScan, pc, walkVars,
                 filterVars, nextJob, jobsClosed, collectVars, callVars, planVars,
                 prevPlan, execVars>>

\* the worker's result after FS.Stat without the modification-time fast path
StatOutcomeMut(path) ==
  IF ~FSStat(path).ok
    THEN [meta |-> ZeroMeta, warning |-> <<>>, skip |-> FALSE, skipRAWDate |-> FALSE,
          err |-> "stat"]
    ELSE [meta |-> ZeroMeta, warning |-> <<>>, skip |-> FALSE, skipRAWDate |-> FALSE,
          err |-> "next"]

\* the worker's result after FS.Stat: an error, the modification-time fast path,
\* or none yet (err "next": the extractor is called)
StatOutcome(path) ==
  LET info == FSStat(path)
      isRAW == IsRawExtension(Ext(path))
  IN  IF ~info.ok THEN Result(ZeroMeta, <<>>, FALSE, FALSE, "stat")
      ELSE IF startDate # <<>> /\ info.modTime < startDate[1]
        THEN Result(ZeroMeta, <<>>, TRUE, isRAW, "")
        ELSE Result(ZeroMeta, <<>>, FALSE, FALSE, "next")

\* the warning for a file whose capture time fell back to the modification time
WarningFor(path) ==
  <<"EXIF not found for ">> \o Base(path) \o <<", using filesystem time">>

\* the date filter without its end bound
OutOfRangeNoEnd(takenAt) == startDate # <<>> /\ takenAt < startDate[1]

\* the date filter with the start bound itself excluded
OutOfRangeMut(takenAt) ==
  \/ startDate # <<>> /\ takenAt <= startDate[1]
  \/ endDate # <<>> /\ takenAt > endDate[1]

\* the capture time is outside the date bounds
OutOfRange(takenAt) ==
  \/ startDate # <<>> /\ takenAt < startDate[1]
  \/ endDate # <<>> /\ takenAt > endDate[1]

\* a worker whose date-filter skip carries the fallback warning
ExifOutcomeWarns(path, modTime, x) ==
  LET isRAW   == IsRawExtension(Ext(path))
      fatal   == x.err = "canceled"
      takenAt == IF x.err # "" THEN modTime ELSE x.takenAt
      warning == IF x.err # "" THEN WarningFor(path) ELSE <<>>
      r       == Rel(SourceDir, path)
      rel     == IF r.ok THEN r.rel ELSE Base(path)
  IN  IF fatal THEN Result(ZeroMeta, <<>>, FALSE, FALSE, x.err)
      ELSE IF OutOfRange(takenAt) THEN Result(ZeroMeta, warning, TRUE, isRAW, "")
      ELSE Result(NewFileMeta(path, rel, takenAt), warning, FALSE, FALSE, "")

\* a worker that takes a cancellation error of the extractor for a missing date
ExifOutcomeMut(path, modTime, x) ==
  LET isRAW   == IsRawExtension(Ext(path))
      takenAt == IF x.err # "" THEN modTime ELSE x.takenAt
      warning == IF x.err # "" THEN WarningFor(path) ELSE <<>>
      r       == Rel(SourceDir, path)
      rel     == IF r.ok THEN r.rel ELSE Base(path)
  IN  IF OutOfRange(takenAt) THEN Result(ZeroMeta, <<>>, TRUE, isRAW, "")
      ELSE Result(NewFileMeta(path, rel, takenAt), warning, FALSE, FALSE, "")

\* the worker's result after the extractor's answer x for a file with this modTime
ExifOutcome(path, modTime, x) ==
  LET isRAW   == IsRawExtension(Ext(path))
      fatal   == x.err = "canceled"
      takenAt == IF x.err # "" THEN modTime ELSE x.takenAt
      warning == IF x.err # "" THEN WarningFor(path) ELSE <<>>
      r       == Rel(SourceDir, path)
      rel     == IF r.ok THEN r.rel ELSE Base(path)
  IN  IF fatal THEN Result(ZeroMeta, <<>>, FALSE, FALSE, x.err)
      ELSE IF OutOfRange(takenAt) THEN Result(ZeroMeta, <<>>, TRUE, isRAW, "")
      ELSE Result(NewFileMeta(path, rel, takenAt), warning, FALSE, FALSE, "")

\* a worker that counts a RAW file skipped by the fast path itself
WorkerProcessRacy(w) ==
  /\ w \in DOMAIN wk
  /\ wk[w].pc = "busy"
  /\ statCalls' = statCalls \cup {wk[w].path}
  /\ LET path == wk[w].path
         out  == StatOutcome(path)
     IN  IF out.err = "next"
           THEN /\ exifCalls' = exifCalls \cup {path}
                /\ wk' = [wk EXCEPT ![w] =
                            [@ EXCEPT !.pc = "send",
                                      !.res = ExifOutcome(path, FSStat(path).modTime,
                                                          ExifRead(path))]]
                /\ UNCHANGED skippedRAWsDate
           ELSE /\ UNCHANGED exifCalls
                /\ skippedRAWsDate' = IF out.skipRAWDate THEN skippedRAWsDate + 1
                                      ELSE skippedRAWsDate
                /\ wk' = [wk EXCEPT ![w] =
                            [@ EXCEPT !.pc = "send",
                                      !.res = [out EXCEPT !.skipRAWDate = FALSE]]]
  /\ UNCHANGED <<directVars, tuiVars, inputVars, ExifWorkers, cancelled, cancelMidScan, pc, walkVars,
                 filterVars, nextJob, jobsClosed, collected, metas, warnings,
                 scanProgress, existsCalls, planVars, prevPlan, execVars>>

\* a worker that skips a file whose Stat fails
WorkerProcessMut(w) ==
  /\ w \in DOMAIN wk
  /\ wk[w].pc = "busy"
  /\ statCalls' = statCalls \cup {wk[w].path}
  /\ LET path == wk[w].path
         out  == IF FSStat(path).ok THEN StatOutcome(path)
                 ELSE Result(ZeroMeta, <<>>, TRUE, FALSE, "")
     IN  IF out.err = "next"
           THEN /\ exifCalls' = exifCalls \cup {path}
                /\ wk' = [wk EXCEPT ![w] =
                            [@ EXCEPT !.pc = "send",
                                      !.res = ExifOutcome(path, FSStat(path).modTime,
                                                          ExifRead(path))]]
           ELSE /\ UNCHANGED exifCalls
                /\ wk' = [wk EXCEPT ![w] = [@ EXCEPT !.pc = "send", !.res = out]]
  /\ UNCHANGED <<directVars, tuiVars, inputVars, ExifWorkers, cancelled, cancelMidScan, pc, walkVars,
                 filterVars, nextJob, jobsClosed, collectVars, existsCalls,
                 planVars, prevPlan, execVars>>

\* the worker's loop body up to the send: FS.Stat, the fast path, and otherwise
\* the extractor and the date filter
WorkerProcess(w) ==
  /\ w \in DOMAIN wk
  /\ wk[w].pc = "busy"
  /\ statCalls' = statCalls \cup {wk[w].path}
  /\ LET path == wk[w].path
         out  == StatOutcome(path)
     IN  IF out.err = "next"
           THEN /\ exifCalls' = exifCalls \cup {path}
                /\ wk' = [wk EXCEPT ![w] =
                            [@ EXCEPT !.pc = "send",
                                      !.res = ExifOutcome(path, FSStat(path).modTime,
                                                          ExifRead(path))]]
           ELSE /\ UNCHANGED exifCalls
                /\ wk' = [wk EXCEPT ![w] = [@ EXCEPT !.pc = "send", !.res = out]]
  /\ UNCHANGED <<directVars, tuiVars, inputVars, ExifWorkers, cancelled, cancelMidScan, pc, walkVars,
                 filterVars, nextJob, jobsClosed, collectVars, existsCalls,
                 planVars, prevPlan, execVars>>

(***************************************************************************)
(* Planner.scan, phase 3: the collector.                                   *)
(***************************************************************************)
\* a collector that reports no progress for a skipped candidate
CollectMut(w) ==
  /\ Collecting
  /\ w \in DOMAIN wk
  /\ wk[w].pc = "send"
  /\ wk' = [wk EXCEPT ![w] = IdleWorker]
  /\ LET res == wk[w].res
     IN  IF res.err # ""
           THEN /\ pc' = "done"
                /\ planErr' = res.err
                /\ UNCHANGED collectVars
           ELSE /\ UNCHANGED <<pc, planErr>>
                /\ warnings' = IF res.warning # <<>> THEN Append(warnings, res.warning)
                               ELSE warnings
                /\ skippedRAWsDate' = IF res.skip /\ res.skipRAWDate
                                        THEN skippedRAWsDate + 1 ELSE skippedRAWsDate
                /\ metas' = IF res.skip THEN metas ELSE Append(metas, res.meta)
                /\ scanProgress' =
                     IF res.skip THEN scanProgress
                     ELSE Append(scanProgress, <<collected + 1, Len(pathsToProcess)>>)
                /\ collected' = collected + 1
  /\ UNCHANGED <<directVars, tuiVars, inputVars, ExifWorkers, cancelled, cancelMidScan, walkVars, filterVars,
                 nextJob, jobsClosed, callVars, plan, prevPlan, execVars>>

\* res := <-results, sent by worker w, and the loop body for it
Collect(w) ==
  /\ Collecting
  /\ w \in DOMAIN wk
  /\ wk[w].pc = "send"
  /\ wk' = [wk EXCEPT ![w] = IdleWorker]
  /\ LET res == wk[w].res
     IN  IF res.err # ""
           THEN /\ pc' = "done"
                /\ planErr' = res.err
                /\ UNCHANGED collectVars
           ELSE /\ UNCHANGED <<pc, planErr>>
                /\ warnings' = IF res.warning # <<>> THEN Append(warnings, res.warning)
                               ELSE warnings
                /\ skippedRAWsDate' = IF res.skip /\ res.skipRAWDate
                                        THEN skippedRAWsDate + 1 ELSE skippedRAWsDate
                /\ metas' = IF res.skip THEN metas ELSE Append(metas, res.meta)
                /\ scanProgress' = Append(scanProgress, <<collected + 1, Len(pathsToProcess)>>)
                /\ collected' = collected + 1
  /\ UNCHANGED <<directVars, tuiVars, inputVars, ExifWorkers, cancelled, cancelMidScan, walkVars, filterVars,
                 nextJob, jobsClosed, callVars, plan, prevPlan, execVars>>

(***************************************************************************)
(* Planner.Plan after scan: sort, items, counts, overrides, range.         *)
(***************************************************************************)
\* the less function without the tie-break on Name
MetaLessMut(a, b) == a.TakenAt < b.TakenAt

\* the less function Plan hands to sort.Slice
MetaLess(a, b) ==
  IF a.TakenAt = b.TakenAt THEN StrLess(a.Name, b.Name) ELSE a.TakenAt < b.TakenAt

\* one pass of the insertion sort sort.Slice runs on a short slice: x moves left
\* while it is less than its left neighbour
RECURSIVE InsertMeta(_, _)
InsertMeta(s, x) ==
  IF s = <<>> THEN <<x>>
  ELSE IF MetaLess(x, s[Len(s)])
    THEN Append(InsertMeta(SubSeq(s, 1, Len(s) - 1), x), s[Len(s)])
    ELSE Append(s, x)

\* sort.Slice(metas, less) for at most 12 elements (insertion sort)
RECURSIVE SortMetas(_)
SortMetas(ms) ==
  IF ms = <<>> THEN <<>>
  ELSE InsertMeta(SortMetas(SubSeq(ms, 1, Len(ms) - 1)), ms[Len(ms)])

\* the CopyItems of the sorted metas
BuildItems(sorted) ==
  [i \in 1..Len(sorted) |->
     [FileMeta |-> sorted[i], TargetPath |-> Join(TargetDir, sorted[i].RelativePath)]]

\* rawCount that counts every item
CountRawMut(items) == Len(items)

\* rawCount: the items counted by the branch meta.IsRAW
CountRaw(items) == Cardinality({ i \in 1..Len(items) : items[i].FileMeta.IsRAW })

\* jpegCount that knows the extension .jpg only
CountJpegMut(items) ==
  Cardinality({ i \in 1..Len(items) : items[i].FileMeta.Ext = <<".", "j", "p", "g">> })

\* jpegCount: the items counted by the branch else if meta.IsJPEG
CountJpeg(items) ==
  Cardinality({ i \in 1..Len(items) :
                  ~items[i].FileMeta.IsRAW /\ items[i].FileMeta.IsJPEG })

\* the index of the first item whose FS.Exists call fails, 0 when none does
FirstExistsErr(items) ==
  IF \E i \in 1..Len(items) : FSExists(items[i].TargetPath).err # ""
    THEN CHOOSE i \in 1..Len(items) :
           /\ FSExists(items[i].TargetPath).err # ""
           /\ \A j \in 1..(i - 1) : FSExists(items[j].TargetPath).err = ""
    ELSE 0

\* override detection that looks at RAW items only
DetectOverridesMut(items) ==
  IF AllowOverride
    THEN SelectSeq(items, LAMBDA it : it.FileMeta.IsRAW /\ FSExists(it.TargetPath).exists)
    ELSE <<>>

\* overrides: the items whose target exists, when AllowOverride is set
DetectOverrides(items) ==
  IF AllowOverride
    THEN SelectSeq(items, LAMBDA it : FSExists(it.TargetPath).exists)
    ELSE <<>>

\* override detection that asks FS.Exists whatever AllowOverride is
OverrideExistsCallsMut(items) ==
  LET k == FirstExistsErr(items)
      n == IF k = 0 THEN Len(items) ELSE k
  IN  { items[i].TargetPath : i \in 1..n }

\* the target paths override detection asks FS.Exists about
OverrideExistsCalls(items) ==
  IF ~AllowOverride THEN {}
  ELSE LET k == FirstExistsErr(items)
           n == IF k = 0 THEN Len(items) ELSE k
       IN  { items[i].TargetPath : i \in 1..n }

\* the least TakenAt of the items
MinTakenAt(items) ==
  CHOOSE t \in { items[i].FileMeta.TakenAt : i \in 1..Len(items) } :
    \A i \in 1..Len(items) : t <= items[i].FileMeta.TakenAt

\* the greatest TakenAt of the items
MaxTakenAt(items) ==
  CHOOSE t \in { items[i].FileMeta.TakenAt : i \in 1..Len(items) } :
    \A i \in 1..Len(items) : t >= items[i].FileMeta.TakenAt

\* a loop that takes the first item for the minimum and the last for the maximum
RangeLoopMut(rest, min, max) ==
  <<min, IF rest = <<>> THEN max ELSE rest[Len(rest)].FileMeta.TakenAt>>

\* deriveRange's loop over items[1:], from the min and max so far
RECURSIVE RangeLoop(_, _, _)
RangeLoop(rest, min, max) ==
  IF rest = <<>> THEN <<min, max>>
  ELSE LET t == Head(rest).FileMeta.TakenAt
       IN  RangeLoop(Tail(rest), IF t < min THEN t ELSE min, IF t > max THEN t ELSE max)

\* deriveRange
DeriveRange(items, start, end) ==
  IF start # <<>> \/ end # <<>> THEN <<start, end>>
  ELSE IF Len(items) = 0 THEN << <<>>, <<>> >>
  ELSE LET r == RangeLoop(Tail(items), items[1].FileMeta.TakenAt,
                          items[1].FileMeta.TakenAt)
       IN  << <<r[1]>>, <<r[2]>> >>

\* the CopyPlan Plan returns for scan's metas and counters
BuildPlan ==
  LET items     == BuildItems(SortMetas(metas))
      overrides == DetectOverrides(items)
      range     == DeriveRange(items, startDate, endDate)
  IN  [ Items           |-> items,
        OverrideItems   |-> overrides,
        SkippedJPEGs    |-> skippedJPEGs,
        SkippedRAWsDate |-> skippedRAWsDate,
        SkippedRAWsDupl |-> skippedRAWsDupl,
        RangeStart      |-> range[1],
        RangeEnd        |-> range[2],
        RawCount        |-> CountRaw(items),
        JpegCount       |-> CountJpeg(items),
        RawOverrides    |-> CountRaw(overrides),
        JpegOverrides   |-> CountJpeg(overrides),
        Warnings        |-> warnings ]

\* a scan that returns as soon as every path has been handed to a worker
PlanReturnMut ==
  /\ pc = "collect"
  /\ nextJob > Len(pathsToProcess)
  /\ pc' = "done"
  /\ LET items == BuildItems(SortMetas(metas))
     IN  /\ existsCalls' = existsCalls \cup OverrideExistsCalls(items)
         /\ IF AllowOverride /\ FirstExistsErr(items) # 0
              THEN /\ planErr' = "exists"
                   /\ plan' = EmptyPlan
              ELSE /\ planErr' = ""
                   /\ plan' = BuildPlan
  /\ UNCHANGED <<directVars, tuiVars, inputVars, ExifWorkers, cancelled, cancelMidScan, walkVars, filterVars,
                 poolVars, collectVars, statCalls, exifCalls, prevPlan, execVars>>

\* the collector has received every result: scan returns and Plan builds the plan
PlanReturn ==
  /\ pc = "collect"
  /\ collected = Len(pathsToProcess)
  /\ pc' = "done"
  /\ LET items == BuildItems(SortMetas(metas))
     IN  /\ existsCalls' = existsCalls \cup OverrideExistsCalls(items)
         /\ IF AllowOverride /\ FirstExistsErr(items) # 0
              THEN /\ planErr' = "exists"
                   /\ plan' = EmptyPlan
              ELSE /\ planErr' = ""
                   /\ plan' = BuildPlan
  /\ UNCHANGED <<directVars, tuiVars, inputVars, ExifWorkers, cancelled, cancelMidScan, walkVars, filterVars,
                 poolVars, collectVars, statCalls, exifCalls, prevPlan, execVars>>

\* Plan has returned a plan and no error
PlanOk == pc \in {"done", "exec", "execDone"} /\ planErr = ""

(***************************************************************************)
(* Executor.Execute.                                                       *)
(***************************************************************************)
\* overrideTargets left empty whatever includeOverrides says
OverrideTargetsMut(p, inc) == {}

\* overrideTargets: the target paths Execute will not copy to
OverrideTargets(p, inc) ==
  IF inc THEN {}
  ELSE { p.OverrideItems[i].TargetPath : i \in 1..Len(p.OverrideItems) }

\* itemsToCopy built back to front
RECURSIVE Reverse(_)
Reverse(q) == IF q = <<>> THEN <<>> ELSE Append(Reverse(Tail(q)), Head(q))

ItemsToCopyMut(p, inc) ==
  Reverse(SelectSeq(p.Items, LAMBDA it : it.TargetPath \notin OverrideTargets(p, inc)))

\* itemsToCopy
ItemsToCopy(p, inc) ==
  SelectSeq(p.Items, LAMBDA it : it.TargetPath \notin OverrideTargets(p, inc))

\* the Executor's FS is nil: Execute returns an error at once
ExecNil(inc) ==
  /\ pc = "done"
  /\ planErr = ""
  /\ pc' = "execDone"
  /\ includeOverrides' = inc
  /\ execErr' = "config"
  /\ UNCHANGED <<directVars, tuiVars, inputVars, ExifWorkers, cancelled, cancelMidScan, walkVars, filterVars,
                 poolVars, collectVars, callVars, planVars, prevPlan, itemsToCopy,
                 copyIdx, copyCalls, copyProgress, targetFiles>>

\* Execute is called with the plan Plan returned
ExecStart(inc) ==
  /\ pc = "done"
  /\ planErr = ""
  /\ pc' = "exec"
  /\ includeOverrides' = inc
  /\ itemsToCopy' = ItemsToCopy(plan, inc)
  /\ copyIdx' = 0
  /\ UNCHANGED <<directVars, tuiVars, inputVars, ExifWorkers, cancelled, cancelMidScan, walkVars, filterVars,
                 poolVars, collectVars, callVars, planVars, prevPlan, copyCalls,
                 copyProgress, execErr, targetFiles>>

\* a loop that notices the cancellation only after the copy
ExecCancelledMut ==
  /\ pc = "exec"
  /\ copyIdx < Len(itemsToCopy)
  /\ cancelled
  /\ pc' = "execDone"
  /\ execErr' = "canceled"
  /\ copyCalls' = Append(copyCalls, itemsToCopy[copyIdx + 1].TargetPath)
  /\ targetFiles' = targetFiles \cup {itemsToCopy[copyIdx + 1].TargetPath}
  /\ UNCHANGED <<directVars, tuiVars, inputVars, ExifWorkers, cancelled, cancelMidScan, walkVars, filterVars,
                 poolVars, collectVars, callVars, planVars, prevPlan, includeOverrides,
                 itemsToCopy, copyIdx, copyProgress>>

\* the loop finds ctx.Done() closed and returns ctx.Err()
ExecCancelled ==
  /\ pc = "exec"
  /\ copyIdx < Len(itemsToCopy)
  /\ cancelled
  /\ pc' = "execDone"
  /\ execErr' = "canceled"
  /\ UNCHANGED <<directVars, tuiVars, inputVars, ExifWorkers, cancelled, cancelMidScan, walkVars, filterVars,
                 poolVars, collectVars, callVars, planVars, prevPlan, includeOverrides,
                 itemsToCopy, copyIdx, copyCalls, copyProgress, targetFiles>>

\* a loop iteration that removes the copies made so far when CopyFile fails
ExecCopyMut(ok) ==
  /\ pc = "exec"
  /\ copyIdx < Len(itemsToCopy)
  /\ ~cancelled
  /\ LET item == itemsToCopy[copyIdx + 1]
     IN  /\ copyProgress' =
               Append(copyProgress, <<copyIdx, Len(itemsToCopy), item.FileMeta.Name>>)
         /\ copyCalls' = Append(copyCalls, item.TargetPath)
         /\ IF ok
              THEN /\ targetFiles' = targetFiles \cup {item.TargetPath}
                   /\ copyIdx' = copyIdx + 1
                   /\ UNCHANGED <<pc, execErr>>
              ELSE /\ pc' = "execDone"
                   /\ execErr' = "copy"
                   /\ targetFiles' =
                        targetFiles \ { copyCalls[i] : i \in 1..Len(copyCalls) }
                   /\ UNCHANGED copyIdx
  /\ UNCHANGED <<directVars, tuiVars, inputVars, ExifWorkers, cancelled, cancelMidScan, walkVars, filterVars,
                 poolVars, collectVars, callVars, planVars, prevPlan, includeOverrides,
                 itemsToCopy>>

\* one loop iteration: the progress event, then FS.CopyFile, which succeeds or fails
ExecCopy(ok) ==
  /\ pc = "exec"
  /\ copyIdx < Len(itemsToCopy)
  /\ ~cancelled
  /\ LET item == itemsToCopy[copyIdx + 1]
     IN  /\ copyProgress' =
               Append(copyProgress, <<copyIdx, Len(itemsToCopy), item.FileMeta.Name>>)
         /\ copyCalls' = Append(copyCalls, item.TargetPath)
         /\ IF ok
              THEN /\ targetFiles' = targetFiles \cup {item.TargetPath}
                   /\ copyIdx' = copyIdx + 1
                   /\ UNCHANGED <<pc, execErr>>
              ELSE /\ pc' = "execDone"
                   /\ execErr' = "copy"
                   /\ UNCHANGED <<targetFiles, copyIdx>>
  /\ UNCHANGED <<directVars, tuiVars, inputVars, ExifWorkers, cancelled, cancelMidScan, walkVars, filterVars,
                 poolVars, collectVars, callVars, planVars, prevPlan, includeOverrides,
                 itemsToCopy>>

\* a loop end without the completion event
ExecFinishMut ==
  /\ pc = "exec"
  /\ copyIdx = Len(itemsToCopy)
  /\ pc' = "execDone"
  /\ UNCHANGED <<directVars, tuiVars, inputVars, ExifWorkers, cancelled, cancelMidScan, walkVars, filterVars,
                 poolVars, collectVars, callVars, planVars, prevPlan, includeOverrides,
                 itemsToCopy, copyIdx, copyCalls, copyProgress, execErr, targetFiles>>

\* the loop is over: the completion event, and Execute returns nil
ExecFinish ==
  /\ pc = "exec"
  /\ copyIdx = Len(itemsToCopy)
  /\ pc' = "execDone"
  /\ copyProgress' = Append(copyProgress, <<Len(itemsToCopy), Len(itemsToCopy), <<>> >>)
  /\ UNCHANGED <<directVars, tuiVars, inputVars, ExifWorkers, cancelled, cancelMidScan, walkVars, filterVars,
                 poolVars, collectVars, callVars, planVars, prevPlan, includeOverrides,
                 itemsToCopy, copyIdx, copyCalls, execErr, targetFiles>>

(***************************************************************************)
(* The specifications.                                                     *)
(***************************************************************************)
\* the steps of one Plan call
PlanNext ==
  \/ Cancel
  \/ \E fsNil, exifNil \in BOOLEAN : PlanNil(fsNil, exifNil)
  \/ \E e \in Universe : WalkEntry(e)
  \/ Filter
  \/ \E w \in 1..(NumCPU + MaxExifWorkers) : SubmitJob(w)
  \/ SubmitterDone
  \/ SubmitterCancelled
  \/ \E w \in 1..(NumCPU + MaxExifWorkers) : WorkerExit(w)
  \/ \E w \in 1..(NumCPU + MaxExifWorkers) : WorkerProcess(w)
  \/ \E w \in 1..(NumCPU + MaxExifWorkers) : Collect(w)
  \/ PlanReturn

\* the steps of one Execute call on the plan
ExecNext ==
  \/ \E inc \in BOOLEAN : ExecNil(inc)
  \/ \E inc \in BOOLEAN : ExecStart(inc)
  \/ ExecCancelled
  \/ \E ok \in BOOLEAN : ExecCopy(ok)
  \/ ExecFinish

Next == PlanNext \/ ExecNext

\* Plan, then (possibly) Execute on its plan
Spec == Init /\ [][Next]_vars

\* Plan is called again on the same file-system state, date bounds and override
\* setting (with any worker count) after a first call returned a plan
Replan ==
  /\ pc = "done"
  /\ planErr = ""
  /\ ~cancelled
  /\ prevPlan = <<>>
  /\ prevPlan' = <<plan>>
  /\ UNCHANGED <<directVars, tuiVars, inputVars, execVars>>
  /\ ExifWorkers' \in 0..MaxExifWorkers
  /\ cancelled' = FALSE
  /\ cancelMidScan' = FALSE
  /\ pc' = "walk"
  /\ toWalk' = entries
  /\ rawPaths' = <<>>
  /\ jpegPaths' = <<>>
  /\ rawBaseNames' = {}
  /\ pathsToProcess' = <<>>
  /\ skippedJPEGs' = 0
  /\ skippedRAWsDupl' = 0
  /\ wk' = <<>>
  /\ nextJob' = 1
  /\ jobsClosed' = FALSE
  /\ collected' = 0
  /\ metas' = <<>>
  /\ warnings' = <<>>
  /\ skippedRAWsDate' = 0
  /\ scanProgress' = <<>>
  /\ statCalls' = {}
  /\ exifCalls' = {}
  /\ existsCalls' = {}
  /\ plan' = EmptyPlan
  /\ planErr' = ""

\* two Plan calls in a row
SpecRerun == Init /\ [][PlanNext \/ Replan]_vars

\* the steps of Plan the Go scheduler takes: every goroutine that can move does
PlanSteps ==
  \/ \E e \in Universe : WalkEntry(e)
  \/ Filter
  \/ \E w \in 1..(NumCPU + MaxExifWorkers) : SubmitJob(w)
  \/ SubmitterDone
  \/ SubmitterCancelled
  \/ \E w \in 1..(NumCPU + MaxExifWorkers) : WorkerExit(w)
  \/ \E w \in 1..(NumCPU + MaxExifWorkers) : WorkerProcess(w)
  \/ \E w \in 1..(NumCPU + MaxExifWorkers) : Collect(w)
  \/ PlanReturn

\* one Plan call under a fair scheduler: a goroutine that can take a step takes
\* one; the context may be cancelled at any time, or never
SpecLive == Init /\ [][PlanNext]_vars /\ WF_vars(PlanSteps)

(***************************************************************************)
(* run (cmd/phopy/main.go) and the TUI (internal/tui/model.go).            *)
(*                                                                         *)
(* The tea.Program hands Model.Update one message at a time; a tea.Cmd     *)
(* runs in a goroutine of its own and its message arrives later, in any    *)
(* order.  Of the CopyPlan the TUI reads len(OverrideItems) only; messages *)
(* that change nothing but the picture (window size, spinner, progress     *)
(* frames, ticks, copy progress) are left out.                             *)
(***************************************************************************)
\* the CopyPlan a PlanReadyMsg carries, by its number of override items
PlanOf(n) == [ready |-> TRUE, overrides |-> n]

\* the messages
QuitMsg == [type |-> "QuitMsg"]
KeyMsg(k) == [type |-> "KeyMsg", key |-> k]
ScanProgressMsg(c, t) == [type |-> "ScanProgressMsg", Current |-> c, Total |-> t]
PlanReadyMsg(n) == [type |-> "PlanReadyMsg", Plan |-> PlanOf(n)]
ConfirmMsg(b) == [type |-> "ConfirmMsg", Confirmed |-> b]
CopyDoneMsg(n) == [type |-> "CopyDoneMsg", OverridesConfirmed |-> n]
ErrorMsg == [type |-> "ErrorMsg"]

\* the tea.Cmd config.ExecuteCopy(plan, includeOverrides) returns
ExecuteCopyCmd(inc) == [type |-> "ExecuteCopy", includeOverrides |-> inc]

\* the keys Update tells apart: ctrl+c / q, left / h / y, right / l / n, enter
Keys == {"q", "y", "n", "enter"}

\* what Update returns: the model, the commands, and the ExecuteCopy calls made
Upd(mm, cmd, calls) == [m |-> mm, cmd |-> cmd, calls |-> calls]

\* a key handler that moves the selection in every phase
UpdateKeyAnyPhase(mm, key) ==
  IF key = "q" THEN Upd([mm EXCEPT !.Quitting = TRUE], <<QuitMsg>>, <<>>)
  ELSE IF key = "y" THEN Upd([mm EXCEPT !.confirmSelection = TRUE], <<>>, <<>>)
  ELSE IF key = "n" THEN Upd([mm EXCEPT !.confirmSelection = FALSE], <<>>, <<>>)
  ELSE IF mm.Phase = "PhaseConfirm"
    THEN Upd(mm, <<ConfirmMsg(mm.confirmSelection)>>, <<>>)
  ELSE IF mm.Phase \in {"PhaseDone", "PhaseError"}
    THEN Upd(mm, <<QuitMsg>>, <<>>)
  ELSE Upd(mm, <<>>, <<>>)

\* Update, case tea.KeyMsg
UpdateKey(mm, key) ==
  IF key = "q" THEN Upd([mm EXCEPT !.Quitting = TRUE], <<QuitMsg>>, <<>>)
  ELSE IF key = "y"
    THEN Upd(IF mm.Phase = "PhaseConfirm" THEN [mm EXCEPT !.confirmSelection = TRUE]
             ELSE mm, <<>>, <<>>)
  ELSE IF key = "n"
    THEN Upd(IF mm.Phase = "PhaseConfirm" THEN [mm EXCEPT !.confirmSelection = FALSE]
             ELSE mm, <<>>, <<>>)
  ELSE IF mm.Phase = "PhaseConfirm"
    THEN Upd(mm, <<ConfirmMsg(mm.confirmSelection)>>, <<>>)
  ELSE IF mm.Phase \in {"PhaseDone", "PhaseError"}
    THEN Upd(mm, <<QuitMsg>>, <<>>)
  ELSE Upd(mm, <<>>, <<>>)

\* PlanReadyMsg handled without the confirmation phase
UpdatePlanReadyMut(mm, msg) ==
  LET m1 == [mm EXCEPT !.Plan = msg.Plan]
  IN  IF config.DryRun THEN Upd([m1 EXCEPT !.Phase = "PhaseDone"], <<>>, <<>>)
      ELSE IF config.ExecuteCopy
        THEN Upd([m1 EXCEPT !.Phase = "PhaseExecuting"], <<ExecuteCopyCmd(FALSE)>>,
                 <<FALSE>>)
        ELSE Upd([m1 EXCEPT !.Phase = "PhaseExecuting"], <<>>, <<>>)

\* Update, case PlanReadyMsg
UpdatePlanReady(mm, msg) ==
  LET m1 == [mm EXCEPT !.Plan = msg.Plan]
  IN  IF config.DryRun THEN Upd([m1 EXCEPT !.Phase = "PhaseDone"], <<>>, <<>>)
      ELSE IF m1.Plan.overrides > 0
        THEN Upd([m1 EXCEPT !.Phase = "PhaseConfirm"], <<>>, <<>>)
      ELSE IF config.ExecuteCopy
        THEN Upd([m1 EXCEPT !.Phase = "PhaseExecuting"], <<ExecuteCopyCmd(FALSE)>>,
                 <<FALSE>>)
        ELSE Upd([m1 EXCEPT !.Phase = "PhaseExecuting"], <<>>, <<>>)

\* Update, case ConfirmMsg
UpdateConfirm(mm, msg) ==
  LET inc == msg.Confirmed
      m1 == IF inc THEN [mm EXCEPT !.OverridesConfirmed = mm.Plan.overrides] ELSE mm
      m2 == [m1 EXCEPT !.Phase = "PhaseExecuting"]
  IN  IF config.ExecuteCopy
        THEN Upd(m2, <<ExecuteCopyCmd(inc)>>, <<inc>>)
        ELSE Upd(m2, <<>>, <<>>)

\* Update, case CopyDoneMsg
UpdateCopyDone(mm, msg) ==
  Upd([mm EXCEPT !.Phase = "PhaseDone",
                 !.OverridesConfirmed = IF msg.OverridesConfirmed > 0
                                          THEN msg.OverridesConfirmed ELSE @],
      <<>>, <<>>)

\* Model.Update
Update(mm, msg) ==
  IF msg.type = "KeyMsg" THEN UpdateKey(mm, msg.key)
  ELSE IF msg.type = "ScanProgressMsg"
    THEN Upd([mm EXCEPT !.scanCurrent = msg.Current, !.scanTotal = msg.Total], <<>>, <<>>)
  ELSE IF msg.type = "PlanReadyMsg" THEN UpdatePlanReady(mm, msg)
  ELSE IF msg.type = "ConfirmMsg" THEN UpdateConfirm(mm, msg)
  ELSE IF msg.type = "CopyDoneMsg" THEN UpdateCopyDone(mm, msg)
  ELSE IF msg.type = "ErrorMsg"
    THEN Upd([mm EXCEPT !.Phase = "PhaseError", !.Err = TRUE], <<>>, <<>>)
  ELSE Upd(mm, <<>>, <<>>)

\* the sequence q without its i-th element
RemoveAt(q, i) == SubSeq(q, 1, i - 1) \o SubSeq(q, i + 1, Len(q))

\* the event loop hands msg to Update and starts the commands it returns; pending
\* are the commands still running
Handle(msg, pending) ==
  LET r == Update(m, msg)
  IN  /\ m' = r.m
      /\ cmds' = pending \o r.cmd
      /\ executeCopyCalls' = executeCopyCalls \o r.calls

\* the Planner.Plan result the planning goroutine will get
PlanOutcomes ==
  [err : BOOLEAN, overrides : 0..MaxOverrides, total : 0..MaxScanTotal]

\* run has built the TUI and started the planning goroutine; the pipeline's own
\* variables play no part
TuiInit ==
  /\ config \in [DryRun : BOOLEAN, ExecuteCopy : BOOLEAN]
  /\ m = NewModel
  /\ prog = "running"
  /\ cmds = <<>>
  /\ planOutcome \in PlanOutcomes
  /\ planGo = "running"
  /\ runPc = "tui"
  /\ runErr = ""
  /\ executeCopyCalls = <<>>
  /\ executeCalls = <<>>
  /\ mkdirCalls = 0
  /\ confirmed = <<>>
  /\ NoCall
  /\ entries = {}
  /\ startDate = <<>>
  /\ endDate = <<>>
  /\ AllowOverride = FALSE
  /\ ExifWorkers = 0
  /\ ScanStart
  /\ prevPlan = <<>>
  /\ includeOverrides = FALSE
  /\ itemsToCopy = <<>>
  /\ copyIdx = 0
  /\ copyCalls = <<>>
  /\ copyProgress = <<>>
  /\ execErr = ""
  /\ targetFiles = {}

\* the user presses a key
KeyPress(k) ==
  /\ prog = "running"
  /\ Len(cmds) < MaxCmds
  /\ Handle(KeyMsg(k), cmds)
  /\ confirmed' = IF k = "enter" /\ m.Phase = "PhaseConfirm"
                    THEN Append(confirmed, m.confirmSelection) ELSE confirmed
  /\ UNCHANGED <<directVars, pipelineVars, config, prog, planOutcome, planGo, runPc, runErr,
                 executeCalls, mkdirCalls>>

\* a command's message arrives: tea.Quit ends the program, others go to Update
CmdReturns(i) ==
  /\ prog = "running"
  /\ i \in 1..Len(cmds)
  /\ cmds[i].type # "ExecuteCopy"
  /\ IF cmds[i] = QuitMsg
       THEN /\ prog' = "quit"
            /\ UNCHANGED <<m, cmds, executeCopyCalls>>
       ELSE /\ Handle(cmds[i], RemoveAt(cmds, i))
            /\ UNCHANGED prog
  /\ UNCHANGED <<directVars, pipelineVars, config, planOutcome, planGo, runPc, runErr,
                 executeCalls, mkdirCalls, confirmed>>

\* the copy an ExecuteCopy command runs ends: it sends CopyDoneMsg or ErrorMsg
CopyFinishes(i, ok) ==
  /\ prog = "running"
  /\ i \in 1..Len(cmds)
  /\ cmds[i].type = "ExecuteCopy"
  /\ Handle(IF ok THEN CopyDoneMsg(IF cmds[i].includeOverrides
                                     THEN m.Plan.overrides ELSE 0)
            ELSE ErrorMsg,
            RemoveAt(cmds, i))
  /\ UNCHANGED <<directVars, pipelineVars, config, prog, planOutcome, planGo, runPc, runErr,
                 executeCalls, mkdirCalls, confirmed>>

\* Planner.OnProgress: p.Send(tui.ScanProgressMsg{...}) from the planning goroutine
ScanProgress ==
  /\ prog = "running"
  /\ planGo = "running"
  /\ m.scanCurrent < planOutcome.total
  /\ Handle(ScanProgressMsg(m.scanCurrent + 1, planOutcome.total), cmds)
  /\ UNCHANGED <<directVars, pipelineVars, config, prog, planOutcome, planGo, runPc, runErr,
                 executeCalls, mkdirCalls, confirmed>>

\* Plan has returned: the goroutine sends ErrorMsg or PlanReadyMsg and closes planDone
PlanDelivers ==
  /\ prog = "running"
  /\ planGo = "running"
  /\ planOutcome.err \/ m.scanCurrent = planOutcome.total
  /\ Handle(IF planOutcome.err THEN ErrorMsg ELSE PlanReadyMsg(planOutcome.overrides),
            cmds)
  /\ planGo' = "done"
  /\ UNCHANGED <<directVars, pipelineVars, config, prog, planOutcome, runPc, runErr,
                 executeCalls, mkdirCalls, confirmed>>

\* the program has ended: p.Send returns without delivering, planDone is closed
PlanSendDropped ==
  /\ prog # "running"
  /\ planGo = "running"
  /\ planGo' = "done"
  /\ UNCHANGED <<directVars, pipelineVars, config, m, prog, cmds, planOutcome, runPc, runErr,
                 executeCopyCalls, executeCalls, mkdirCalls, confirmed>>

\* the process is told to terminate (SIGTERM): the program's signal handler quits
\* the event loop and p.Run returns the model
Terminate ==
  /\ prog = "running"
  /\ prog' = "quit"
  /\ UNCHANGED <<directVars, pipelineVars, config, m, cmds, planOutcome, planGo, runPc, runErr,
                 executeCopyCalls, executeCalls, mkdirCalls, confirmed>>

\* p.Run returns an error
ProgramFails ==
  /\ prog = "running"
  /\ prog' = "failed"
  /\ UNCHANGED <<directVars, pipelineVars, config, m, cmds, planOutcome, planGo, runPc, runErr,
                 executeCopyCalls, executeCalls, mkdirCalls, confirmed>>

\* run after p.Run: the error, the early quit, else on to <-planDone
RunTuiReturned ==
  /\ runPc = "tui"
  /\ prog # "running"
  /\ IF prog = "failed" THEN runPc' = "returned" /\ runErr' = "tui"
     ELSE IF m.Quitting THEN runPc' = "returned" /\ runErr' = ""
     ELSE runPc' = "waitPlan" /\ runErr' = ""
  /\ UNCHANGED <<directVars, pipelineVars, config, m, prog, cmds, planOutcome, planGo,
                 executeCopyCalls, executeCalls, mkdirCalls, confirmed>>

\* run after <-planDone without the dry-run check
RunAfterPlanMut ==
  /\ runPc = "waitPlan"
  /\ planGo = "done"
  /\ IF planOutcome.err THEN runPc' = "returned" /\ runErr' = "plan"
     ELSE IF m.Phase = "PhaseError" THEN runPc' = "returned" /\ runErr' = "tui"
     ELSE runPc' = "mkdir" /\ runErr' = ""
  /\ UNCHANGED <<directVars, pipelineVars, config, m, prog, cmds, planOutcome, planGo,
                 executeCopyCalls, executeCalls, mkdirCalls, confirmed>>

\* run after <-planDone: the plan error, the dry run, the error phase
RunAfterPlan ==
  /\ runPc = "waitPlan"
  /\ planGo = "done"
  /\ IF planOutcome.err THEN runPc' = "returned" /\ runErr' = "plan"
     ELSE IF config.DryRun THEN runPc' = "returned" /\ runErr' = ""
     ELSE IF m.Phase = "PhaseError" THEN runPc' = "returned" /\ runErr' = "tui"
     ELSE runPc' = "mkdir" /\ runErr' = ""
  /\ UNCHANGED <<directVars, pipelineVars, config, m, prog, cmds, planOutcome, planGo,
                 executeCopyCalls, executeCalls, mkdirCalls, confirmed>>

\* filesystem.MkdirAll(cfg.TargetDir, 0o755)
RunMkdir(ok) ==
  /\ runPc = "mkdir"
  /\ mkdirCalls' = mkdirCalls + 1
  /\ IF ok THEN runPc' = "execute" /\ runErr' = ""
     ELSE runPc' = "returned" /\ runErr' = "mkdir"
  /\ UNCHANGED <<directVars, pipelineVars, config, m, prog, cmds, planOutcome, planGo,
                 executeCopyCalls, executeCalls, confirmed>>

\* executor.Execute(ctx, final.Plan, includeOverrides), then run returns
RunExecute(ok) ==
  /\ runPc = "execute"
  /\ executeCalls' = Append(executeCalls,
                            [plan |-> m.Plan, includeOverrides |-> m.OverridesConfirmed > 0])
  /\ runPc' = "returned"
  /\ runErr' = IF ok THEN "" ELSE "copy"
  /\ UNCHANGED <<directVars, pipelineVars, config, m, prog, cmds, planOutcome, planGo,
                 executeCopyCalls, mkdirCalls, confirmed>>

\* the steps the program takes by itself: goroutines, the event loop, run
TuiSteps ==
  \/ \E i \in 1..MaxCmds : CmdReturns(i)
  \/ \E i \in 1..MaxCmds, ok \in BOOLEAN : CopyFinishes(i, ok)
  \/ ScanProgress
  \/ PlanDelivers
  \/ PlanSendDropped
  \/ RunTuiReturned
  \/ RunAfterPlan
  \/ \E ok \in BOOLEAN : RunMkdir(ok)
  \/ \E ok \in BOOLEAN : RunExecute(ok)

\* the steps of the user and of the world around the program
TuiEnv ==
  \/ \E k \in Keys : KeyPress(k)
  \/ Terminate
  \/ ProgramFails

TuiNext == TuiSteps \/ TuiEnv

\* one call of run
SpecTui == TuiInit /\ [][TuiNext]_vars

\* one call of run under a fair scheduler; the user may never press a key
SpecTuiLive == TuiInit /\ [][TuiNext]_vars /\ WF_vars(TuiSteps)

(***************************************************************************)
(* The functions of internal/domain and deriveRange, called by themselves. *)
(***************************************************************************)
\* unicode.ToUpper on each ASCII character
UpperOf ==
  [c \in DOMAIN CodeOf |->
     IF CodeOf[c] >= CodeOf["a"] /\ CodeOf[c] <= CodeOf["z"]
       THEN Printable[CodeOf[c] - (CodeOf["a"] - CodeOf["A"]) - 31]
       ELSE c]

\* the spellings of the lower-case string l in upper- and lower-case letters
CaseVariants(l) ==
  { s \in [1..Len(l) -> { l[i] : i \in 1..Len(l) } \cup { UpperOf[l[i]] : i \in 1..Len(l) }] :
      \A i \in 1..Len(l) : s[i] \in {l[i], UpperOf[l[i]]} }

\* extensions that are neither RAW nor JPEG, some of them close to one
OtherExtensions ==
  { <<>>, <<".">>, <<".", "t", "x", "t">>, <<".", "p", "n", "g">>, <<".", "j", "p", "e">>,
    <<".", "j", "p", "g", "x">>, <<".", "J", "P", "G", "2">>, <<"j", "p", "g">>,
    <<"a", "r", "w">>, <<".", "r", "a", "w">>, <<".", "A", "R">>, <<".", "c", "r", "4">>,
    <<".", "D", "N", "G", ".">>, <<" ", ".", "n", "e", "f">> }

\* the extensions the classifier is called with
ExtSamples ==
  UNION { CaseVariants(l) : l \in RawExtensions \cup JpegExtensions } \cup OtherExtensions

\* the source paths NewFileMeta is called with
PathSamples ==
  { e.path : e \in Universe } \cup
  { <<"/", "s", "/", ".", "a", "r", "w">>,
    <<"/", "s", "/", "a", ".", "j", "p", "g", ".", "N", "E", "F">>,
    <<"/", "s", "/", "a", ".", "d", "n", "g", "/", "b">>,
    <<"/", "s", "/", "a", ".", "D", "n", "G">>,
    <<"/", "s", "/", "a", ".", "J", "p", "E", "g">> }

\* a CopyItem with this capture time
ItemAt(t) == [FileMeta |-> [ZeroMeta EXCEPT !.TakenAt = t], TargetPath |-> <<>>]

\* the item lists deriveRange is called with: at most MaxItems items, in any order
ItemLists ==
  UNION { [1..n -> { ItemAt(t) : t \in 1..MaxTime }] : n \in 0..MaxItems }

\* the calls made
Calls ==
  { [fn |-> "classify", ext |-> x] : x \in ExtSamples } \cup
  { [fn |-> "NewFileMeta", path |-> x] : x \in PathSamples } \cup
  { [fn |-> "deriveRange", items |-> its, start |-> a, end |-> b] :
      its \in ItemLists, a \in DateBounds, b \in DateBounds }

\* a function is about to be called; the pipeline and the TUI play no part
DirectInit ==
  /\ call \in Calls
  /\ ret = <<>>
  /\ NoTui
  /\ entries = {}
  /\ startDate = <<>>
  /\ endDate = <<>>
  /\ AllowOverride = FALSE
  /\ ExifWorkers = 0
  /\ ScanStart
  /\ prevPlan = <<>>
  /\ includeOverrides = FALSE
  /\ itemsToCopy = <<>>
  /\ copyIdx = 0
  /\ copyCalls = <<>>
  /\ copyProgress = <<>>
  /\ execErr = ""
  /\ targetFiles = {}

\* IsRawExtension(ext) and IsJpegExtension(ext)
CallClassify ==
  /\ call.fn = "classify"
  /\ ret = <<>>
  /\ ret' = << [raw |-> IsRawExtension(call.ext), jpeg |-> IsJpegExtension(call.ext)] >>
  /\ UNCHANGED <<call, pipelineVars, tuiVars>>

\* NewFileMeta(path, rel, t)
CallNewFileMeta ==
  /\ call.fn = "NewFileMeta"
  /\ ret = <<>>
  /\ ret' = << NewFileMeta(call.path, Base(call.path), 1) >>
  /\ UNCHANGED <<call, pipelineVars, tuiVars>>

\* deriveRange(items, startDate, endDate)
CallDeriveRange ==
  /\ call.fn = "deriveRange"
  /\ ret = <<>>
  /\ ret' = << DeriveRange(call.items, call.start, call.end) >>
  /\ UNCHANGED <<call, pipelineVars, tuiVars>>

DirectNext == CallClassify \/ CallNewFileMeta \/ CallDeriveRange

\* one call of a function
SpecCalls == DirectInit /\ [][DirectNext]_vars

(***************************************************************************)
(* What the claims speak of, read off the source tree (not off scan).      *)
(***************************************************************************)
\* the class of each entry's name by its lower-cased extension
ClassOf ==
  [e \in Universe |->
     IF ToLower(Ext(Base(e.path))) \in RawExtensions THEN "raw"
     ELSE IF ToLower(Ext(Base(e.path))) \in JpegExtensions THEN "jpeg"
     ELSE "other"]

\* the lower-cased, extension-stripped base name of each entry
StemOf ==
  [e \in Universe |-> ToLower(TrimSuffix(Base(e.path), Ext(Base(e.path))))]

\* the regular files of the source tree
Files == { e \in entries : e.kind = "file" }

\* the RAW files and the JPEG files of the source tree
RawFiles == { e \in Files : ClassOf[e] = "raw" }
JpegFiles == { e \in Files : ClassOf[e] = "jpeg" }

\* the JPEG files that have a RAW file of the same stem
PairedJpegs == { j \in JpegFiles : \E r \in RawFiles : StemOf[r] = StemOf[j] }

\* the target paths that existed when Plan was called
InitialTargets == { TargetOf(e.path) : e \in { x \in entries : x.target } }

\* FS.Exists reported true for the entry's target path during planning
TargetReported(e) == e.target /\ ~e.existsErr

\* the files phase 2 considers: RAW files and JPEG files without a RAW sibling
Considered == RawFiles \cup (JpegFiles \ PairedJpegs)

\* the files dropped because their target exists (AllowOverride false)
DroppedAsDuplicate == { e \in Considered : ~AllowOverride /\ TargetReported(e) }

\* the candidates: the files that reach the worker pool
Candidates == Considered \ DroppedAsDuplicate

\* the source paths of the plan's items, and of its override items
ItemPaths == { plan.Items[i].FileMeta.SourcePath : i \in 1..Len(plan.Items) }
OverridePaths ==
  { plan.OverrideItems[i].FileMeta.SourcePath : i \in 1..Len(plan.OverrideItems) }

(***************************************************************************)
(* C1. For every successful Plan call the returned plan satisfies          *)
(* RawCount + JpegCount = len(Items).                                      *)
(***************************************************************************)
C1_CountsCoverItems ==
  PlanOk => plan.RawCount + plan.JpegCount = Len(plan.Items)

\* a plan that holds a RAW item and a JPEG item
C1_Witness ==
  PlanOk /\ plan.RawCount >= 1 /\ plan.JpegCount >= 1

(***************************************************************************)
(* C2. After a successful Plan a walked JPEG is dropped and counted in     *)
(* SkippedJPEGs exactly when some walked RAW file has the same lower-cased,*)
(* extension-stripped base name: SkippedJPEGs is the number of such JPEGs, *)
(* none of them is an item, and this holds for every walk order.           *)
(***************************************************************************)
C2_JpegSkippedIffRawSibling ==
  PlanOk =>
    /\ plan.SkippedJPEGs = Cardinality(PairedJpegs)
    /\ \A j \in PairedJpegs : j.path \notin ItemPaths

\* the JPEG was walked before its RAW sibling, and was skipped for it
C2_Witness ==
  /\ PlanOk
  /\ plan.SkippedJPEGs = 1
  /\ Len(rawPaths) = 1
  /\ \E j \in PairedJpegs, r \in RawFiles :
       /\ StemOf[r] = StemOf[j]
       /\ Base(j.path) # Base(r.path)
       /\ r.path \in ItemPaths

(***************************************************************************)
(* C3. With AllowOverride false, after a successful Plan no item has a     *)
(* target path for which FS.Exists reported true, OverrideItems is empty,  *)
(* and neither Stat nor the extractor was invoked for a candidate dropped  *)
(* because its target exists.                                              *)
(***************************************************************************)
C3_NoExistingTargetWithoutOverride ==
  ~AllowOverride =>
    /\ \A p \in statCalls \cup exifCalls : EntryAt(p) \notin DroppedAsDuplicate
    /\ PlanOk =>
         /\ \A e \in Files : TargetReported(e) => e.path \notin ItemPaths
         /\ plan.OverrideItems = <<>>

\* a file was dropped because its target exists while another became an item
C3_Witness ==
  /\ ~AllowOverride
  /\ PlanOk
  /\ DroppedAsDuplicate # {}
  /\ Len(plan.Items) >= 1

(***************************************************************************)
(* C4. With AllowOverride true, after a successful Plan every candidate    *)
(* that passes the date filter and whose target path exists is in Items    *)
(* and in OverrideItems, and OverrideItems is exactly the items whose      *)
(* target path exists.                                                     *)
(***************************************************************************)
\* the capture time of a file: the extractor's value, else the modification time
CaptureTime(e) == IF e.exif = <<>> THEN e.modTime ELSE e.exif[1]

\* t lies within the date bounds that are set (a bound itself included)
InBounds(t) ==
  /\ startDate # <<>> => t >= startDate[1]
  /\ endDate # <<>> => t <= endDate[1]

\* the file's modification time is before an explicit start bound
OlderThanStart(e) == startDate # <<>> /\ e.modTime < startDate[1]

\* the file passes scan's date filter
PassesDateFilter(e) == ~OlderThanStart(e) /\ InBounds(CaptureTime(e))

C4_OverridesAreExistingTargets ==
  (AllowOverride /\ PlanOk) =>
    /\ \A e \in Candidates :
         (PassesDateFilter(e) /\ e.target) =>
            (e.path \in ItemPaths /\ e.path \in OverridePaths)
    /\ plan.OverrideItems =
         SelectSeq(plan.Items, LAMBDA it : it.TargetPath \in InitialTargets)

\* a plan with an item to overwrite and an item that is new
C4_Witness ==
  /\ AllowOverride
  /\ PlanOk
  /\ Len(plan.OverrideItems) = 1
  /\ Len(plan.Items) = 2

(***************************************************************************)
(* C5. CopyFile is called on a target path that already existed at         *)
(* planning time only if the plan was built with AllowOverride true and    *)
(* Execute was called with includeOverrides true.                          *)
(***************************************************************************)
C5_OverwriteOnlyWhenConfirmed ==
  \A i \in 1..Len(copyCalls) :
    copyCalls[i] \in InitialTargets => (AllowOverride /\ includeOverrides)

(***************************************************************************)
(* C6. For every candidate (RAW or JPEG) whose modification time is before *)
(* an explicit start bound the extractor is never invoked, the file is not *)
(* in Items, and the plan's date-skip counter is incremented by one for it.*)
(***************************************************************************)
\* the candidates the modification-time fast path applies to
FastPathFiles == { e \in Candidates : e.statOk /\ OlderThanStart(e) }

\* C6 as claimed: every such file, RAW or JPEG, adds one to the counter
C6_FastPathCountsEveryFile ==
  /\ \A p \in exifCalls : EntryAt(p) \notin FastPathFiles
  /\ PlanOk =>
       /\ \A e \in FastPathFiles : e.path \notin ItemPaths
       /\ plan.SkippedRAWsDate >= Cardinality(FastPathFiles)

\* C6 as amended: the extractor is never invoked for such a file, the file is not
\* in Items, and SkippedRAWsDate is incremented by one for it when it is a RAW
\* file and not at all when it is a JPEG: after a successful Plan the counter is
\* the number of RAW candidates the date filter skipped.
C6_FastPathCountsRawOnly ==
  /\ \A p \in exifCalls : EntryAt(p) \notin FastPathFiles
  /\ PlanOk =>
       /\ \A e \in FastPathFiles : e.path \notin ItemPaths
       /\ plan.SkippedRAWsDate =
            Cardinality({ e \in Candidates \cap RawFiles : ~PassesDateFilter(e) })

\* a RAW file and a JPEG file both older than the start bound, one of them counted
C6_Witness ==
  /\ PlanOk
  /\ FastPathFiles \cap RawFiles # {}
  /\ FastPathFiles \cap JpegFiles # {}
  /\ plan.SkippedRAWsDate = 1
  /\ statCalls # {}

C8_ItemsSorted ==
  PlanOk =>
    \A i, j \in 1..Len(plan.Items) :
      i < j =>
        LET a == plan.Items[i].FileMeta
            b == plan.Items[j].FileMeta
        IN  \/ a.TakenAt < b.TakenAt
            \/ a.TakenAt = b.TakenAt /\ ~StrLess(b.Name, a.Name)

\* two items of equal capture time were collected in the reverse of their order
C8_Witness ==
  /\ PlanOk
  /\ Len(plan.Items) = 2
  /\ plan.Items[1].FileMeta.TakenAt = plan.Items[2].FileMeta.TakenAt
  /\ plan.Items[1].FileMeta.Name # plan.Items[2].FileMeta.Name
  /\ metas[1] = plan.Items[2].FileMeta

(***************************************************************************)
(* C9. Two Plan runs on the same file-system state, date bounds and        *)
(* override setting return identical CopyPlan values, for every worker     *)
(* count and every worker completion order.                                *)
(***************************************************************************)
C9_SamePlanTwice ==
  (pc = "done" /\ planErr = "" /\ ~cancelled /\ prevPlan # <<>>) => plan = prevPlan[1]

(***************************************************************************)
(* C10. If the context is cancelled while Plan is scanning (before the     *)
(* last result has been collected), Plan returns the context's             *)
(* cancellation error and an empty CopyPlan, never a usable plan.          *)
(***************************************************************************)
\* Plan has returned
PlanReturned == pc \notin {"walk", "collect"}

C10_CancelMidScanNoPlan ==
  (PlanReturned /\ cancelMidScan /\ planErr \notin {"walk", "stat", "exists", "config"}) =>
    (planErr = "canceled" /\ plan = EmptyPlan)

(***************************************************************************)
(* C11. Every call to Plan eventually returns: for every interleaving of   *)
(* the submitter, the workers and the collector, also when the context is  *)
(* cancelled while some candidates have not been submitted, the collector  *)
(* never waits forever for a result.                                       *)
(***************************************************************************)
C11_PlanEventuallyReturns == <>PlanReturned

(***************************************************************************)
(* C12. In every Execute run with includeOverrides false, CopyFile is never *)
(* called for an item whose TargetPath is the target of an OverrideItems   *)
(* entry, also when the run is aborted; when Execute returns nil, CopyFile *)
(* was called exactly once for every other item of Items (with             *)
(* includeOverrides true: exactly once for every item of Items).           *)
(***************************************************************************)
\* Execute has been called on the plan
Executing == pc \in {"exec", "execDone"}

\* Execute has returned nil
ExecOk == pc = "execDone" /\ execErr = ""

\* the target paths of the plan's override items
PlanOverrideTargets ==
  { plan.OverrideItems[k].TargetPath : k \in 1..Len(plan.OverrideItems) }

\* the number of CopyFile calls made with the target path t
CopyCount(t) == Cardinality({ i \in 1..Len(copyCalls) : copyCalls[i] = t })

C12_OverrideItemsNotCopied ==
  Executing =>
    /\ ~includeOverrides =>
         \A i \in 1..Len(copyCalls) : copyCalls[i] \notin PlanOverrideTargets
    /\ ExecOk =>
         \A k \in 1..Len(plan.Items) :
           CopyCount(plan.Items[k].TargetPath) =
             IF ~includeOverrides /\ plan.Items[k].TargetPath \in PlanOverrideTargets
               THEN 0 ELSE 1

\* Execute returned nil having copied one item and left the override item alone
C12_Witness ==
  /\ ExecOk
  /\ ~includeOverrides
  /\ Len(plan.Items) = 2
  /\ Len(plan.OverrideItems) = 1
  /\ Len(copyCalls) = 1

(***************************************************************************)
(* C13. The CopyFile calls Execute makes are a subsequence of plan.Items   *)
(* in plan order: of two copied items the one earlier in Items is copied   *)
(* first, and the calls are made one after the other.                      *)
(***************************************************************************)
\* the position in plan.Items of the item with target path t
ItemIndex(t) == CHOOSE k \in 1..Len(plan.Items) : plan.Items[k].TargetPath = t

C13_CopiesInPlanOrder ==
  Executing =>
    /\ \A i \in 1..Len(copyCalls) :
         \E k \in 1..Len(plan.Items) : plan.Items[k].TargetPath = copyCalls[i]
    /\ \A i, j \in 1..Len(copyCalls) :
         i < j => ItemIndex(copyCalls[i]) < ItemIndex(copyCalls[j])
    /\ Len(copyCalls) \in {copyIdx, copyIdx + 1}

\* two items were copied
C13_Witness ==
  /\ Executing
  /\ Len(copyCalls) = 2
  /\ copyCalls[1] # copyCalls[2]

(***************************************************************************)
(* C14. If the context is cancelled when Execute is about to copy an item, *)
(* Execute calls CopyFile for neither that item nor a later one and        *)
(* returns the context's error; no CopyFile call starts after Execute has  *)
(* observed the cancellation, and the items copied before stay copied.     *)
(***************************************************************************)
\* the target paths CopyFile has written
CopiedTargets == { copyCalls[i] : i \in 1..Len(copyCalls) }

C14_CancelStopsCopying ==
  /\ [][ (pc = "exec" /\ cancelled /\ copyIdx < Len(itemsToCopy)) =>
           /\ copyCalls' = copyCalls
           /\ targetFiles' = targetFiles
           /\ copyIdx' = copyIdx
           /\ pc' # pc => (pc' = "execDone" /\ execErr' = "canceled") ]_vars
  /\ [][ pc = "execDone" => (copyCalls' = copyCalls /\ targetFiles' = targetFiles) ]_vars
  /\ [] ( (pc = "execDone" /\ execErr = "canceled") =>
            /\ Len(copyCalls) = copyIdx
            /\ copyIdx < Len(itemsToCopy)
            /\ CopiedTargets \subseteq targetFiles )

\* Execute was cancelled after its first copy, with an item left to copy
C14_Witness ==
  /\ pc = "execDone"
  /\ execErr = "canceled"
  /\ Len(copyCalls) = 1
  /\ Len(itemsToCopy) = 2
  /\ CopiedTargets \subseteq targetFiles

(***************************************************************************)
(* C15. If CopyFile returns an error for an item, Execute returns that     *)
(* error, makes no further CopyFile call, emits no completion event, and   *)
(* leaves the copies already made in place.                                *)
(***************************************************************************)
\* the completion event of a run that copies n items
CompletionEvent(n) == <<n, n, <<>> >>

C15_CopyErrorAborts ==
  /\ [][ (pc = "exec" /\ pc' = "execDone" /\ Len(copyCalls') > Len(copyCalls)) =>
           /\ execErr' = "copy"
           /\ copyCalls' = Append(copyCalls, itemsToCopy[copyIdx + 1].TargetPath)
           /\ targetFiles' = targetFiles ]_vars
  /\ [][ (pc = "execDone" /\ execErr = "copy") =>
           UNCHANGED <<copyCalls, copyProgress, targetFiles, execErr, pc>> ]_vars
  /\ [] ( (pc = "execDone" /\ execErr = "copy") =>
            /\ Len(copyCalls) = copyIdx + 1
            /\ copyCalls[Len(copyCalls)] = itemsToCopy[copyIdx + 1].TargetPath
            /\ \A i \in 1..Len(copyProgress) :
                 copyProgress[i] # CompletionEvent(Len(itemsToCopy))
            /\ \A i \in 1..copyIdx : copyCalls[i] \in targetFiles )

\* the second copy failed: the first file is in place
C15_Witness ==
  /\ pc = "execDone"
  /\ execErr = "copy"
  /\ Len(copyCalls) = 2
  /\ copyCalls[1] \in targetFiles
  /\ copyCalls[1] \notin InitialTargets

(***************************************************************************)
(* C16. Execute emits exactly one progress event (i, total, name)          *)
(* immediately before the copy of the i-th item to copy (i from 0, total   *)
(* the number of items that will be copied), with strictly increasing      *)
(* current values and a constant total, and on successful completion one   *)
(* final event (total, total, "") after the last copy.                     *)
(***************************************************************************)
C16_CopyProgressEvents ==
  Executing =>
    /\ \A i \in 1..Len(copyCalls) :
         /\ i <= Len(copyProgress)
         /\ copyProgress[i] = <<i - 1, Len(itemsToCopy), itemsToCopy[i].FileMeta.Name>>
         /\ copyCalls[i] = itemsToCopy[i].TargetPath
    /\ Len(copyProgress) = Len(copyCalls) + (IF ExecOk THEN 1 ELSE 0)
    /\ ExecOk =>
         /\ Len(copyCalls) = Len(itemsToCopy)
         /\ copyProgress[Len(copyProgress)] = CompletionEvent(Len(itemsToCopy))

\* two copies and the completion event
C16_Witness ==
  /\ ExecOk
  /\ Len(copyProgress) = 3
  /\ copyProgress[1][1] = 0
  /\ copyProgress[2][1] = 1
  /\ copyProgress[3] = CompletionEvent(2)

(***************************************************************************)
(* C17. Plan calls OnProgress exactly once per candidate resolved by the   *)
(* worker pool, candidates skipped by date included, with current = 1, 2,  *)
(* ... in increasing order and a constant total equal to the number of     *)
(* candidates; on a successful scan the last call has current = total.     *)
(***************************************************************************)
C17_ScanProgressEvents ==
  /\ Len(scanProgress) = collected
  /\ collected <= Len(pathsToProcess)
  /\ \A i \in 1..Len(scanProgress) : scanProgress[i] = <<i, Len(pathsToProcess)>>
  /\ PlanOk =>
       /\ Len(scanProgress) = Cardinality(Candidates)
       /\ Len(pathsToProcess) = Cardinality(Candidates)

\* a successful scan of two candidates, one of them skipped by date
C17_Witness ==
  /\ PlanOk
  /\ Len(scanProgress) = 2
  /\ Len(metas) = 1
  /\ scanProgress[2] = <<2, 2>>


\* run is past the dry-run and error-phase checks: MkdirAll or Execute was called
RunCopies == mkdirCalls > 0 \/ executeCalls # <<>>

\* C18: run calls MkdirAll and Executor.Execute only after planning succeeded, not
\* in a dry run, not after the user quit and not with the TUI in its error phase;
\* in a dry run the TUI is in PhaseDone once it has the plan, and ExecuteCopy is
\* never invoked.
C18_CopyOnlyWhenPlanned ==
  /\ RunCopies =>
       /\ planGo = "done"
       /\ ~planOutcome.err
       /\ ~config.DryRun
       /\ ~m.Quitting
       /\ m.Phase # "PhaseError"
       /\ prog = "quit"
  /\ config.DryRun =>
       /\ executeCopyCalls = <<>>
       /\ executeCalls = <<>>
       /\ m.Plan.ready => m.Phase = "PhaseDone"

\* run has called Executor.Execute with the plan the TUI was handed
C18_Witness ==
  /\ executeCalls # <<>>
  /\ executeCalls[1].plan = PlanOf(planOutcome.overrides)
  /\ mkdirCalls = 1

CopyInvoked == executeCopyCalls # <<>> \/ executeCalls # <<>>

\* the user left the TUI with q or ctrl+c, or run returned an error
UserQuit == m.Quitting \/ runErr # ""

\* C20: in a run that is not a dry run, whose planning succeeds, whose plan needs
\* no confirmation and which the user does not quit, the copy of the plan's files
\* is eventually started.
C20_FilesEventuallyCopied ==
  (~config.DryRun /\ ~planOutcome.err /\ planOutcome.overrides = 0)
    => <>(CopyInvoked \/ UserQuit)


(***************************************************************************)
(* C21. IsRawExtension and IsJpegExtension classify every extension,       *)
(* ignoring letter case, as exactly one of RAW (the eight RAW extensions), *)
(* JPEG (.jpg, .jpeg) or neither; no extension is both, so no FileMeta has *)
(* IsRAW and IsJPEG both set, and the FileMeta of a file the walk takes as *)
(* a RAW or JPEG file has exactly one of them set.                         *)
(***************************************************************************)
\* the strings a and b are equal up to the case of their letters
EqualFold(a, b) ==
  /\ Len(a) = Len(b)
  /\ \A i \in 1..Len(a) : a[i] = b[i] \/ UpperOf[a[i]] = b[i] \/ a[i] = UpperOf[b[i]]

\* ext is one of the eight RAW extensions, in any letter case
NamedRaw(ext) == \E k \in RawExtensions : EqualFold(ext, k)

\* ext is .jpg or .jpeg, in any letter case
NamedJpeg(ext) == \E k \in JpegExtensions : EqualFold(ext, k)

C21_ExactlyOneClass ==
  /\ (call.fn = "classify" /\ ret # <<>>) =>
       /\ ret[1].raw <=> NamedRaw(call.ext)
       /\ ret[1].jpeg <=> NamedJpeg(call.ext)
       /\ ~(ret[1].raw /\ ret[1].jpeg)
  /\ (call.fn = "NewFileMeta" /\ ret # <<>>) =>
       LET ext == Ext(Base(call.path))
       IN  /\ ret[1].IsRAW <=> NamedRaw(ext)
           /\ ret[1].IsJPEG <=> NamedJpeg(ext)
           /\ ~(ret[1].IsRAW /\ ret[1].IsJPEG)
           /\ (NamedRaw(ext) \/ NamedJpeg(ext)) => (ret[1].IsRAW # ret[1].IsJPEG)

\* a JPEG extension in mixed case was classified as JPEG and not as RAW
C21_Witness ==
  /\ call.fn = "classify"
  /\ call.ext = <<".", "J", "p", "E", "g">>
  /\ ret = << [raw |-> FALSE, jpeg |-> TRUE] >>


(***************************************************************************)
(* C22. Plan with a nil FS or a nil Exif, and Execute with a nil FS,       *)
(* return an error at once: no file-system or extractor operation is       *)
(* called and no progress event is emitted.                                *)
(***************************************************************************)
C22_NilDependencyFailsAtOnce ==
  /\ planErr = "config" =>
       /\ plan = EmptyPlan
       /\ toWalk = entries
       /\ rawPaths = <<>>
       /\ jpegPaths = <<>>
       /\ wk = <<>>
       /\ statCalls = {}
       /\ exifCalls = {}
       /\ existsCalls = {}
       /\ scanProgress = <<>>
       /\ copyCalls = <<>>
  /\ execErr = "config" =>
       /\ copyCalls = <<>>
       /\ copyProgress = <<>>
       /\ itemsToCopy = <<>>
       /\ targetFiles = InitialTargets

\* Plan failed for a nil dependency on a tree with files in it
C22_Witness ==
  /\ planErr = "config"
  /\ Cardinality(entries) = 2
  /\ pc = "done"


(***************************************************************************)
(* C23. With AllowOverride false, every candidate (RAW or JPEG) that the   *)
(* scanner drops because its target path already exists increments the     *)
(* plan's duplicate-skip counter exactly once: after a successful Plan the *)
(* counter equals the number of candidates dropped for that reason.        *)
(***************************************************************************)
\* C23 as claimed
C23_DuplicatesCounted ==
  (~AllowOverride /\ PlanOk) => plan.SkippedRAWsDupl = Cardinality(DroppedAsDuplicate)

\* C23 as amended: with AllowOverride false every RAW file dropped because its
\* target path exists increments SkippedRAWsDupl exactly once, and a JPEG file
\* dropped for that reason is counted nowhere: after a successful Plan the counter
\* is the number of RAW files dropped for that reason.
C23_RawDuplicatesCounted ==
  (~AllowOverride /\ PlanOk) =>
    /\ plan.SkippedRAWsDupl = Cardinality(DroppedAsDuplicate \cap RawFiles)
    /\ plan.SkippedJPEGs = Cardinality(PairedJpegs)
    /\ \A e \in DroppedAsDuplicate : e.path \notin ItemPaths

\* a RAW file was dropped as a duplicate and counted, another file became an item
C23_Witness ==
  /\ ~AllowOverride
  /\ PlanOk
  /\ DroppedAsDuplicate \cap RawFiles # {}
  /\ plan.SkippedRAWsDupl = 1
  /\ Len(plan.Items) = 1


(***************************************************************************)
(* C24. At every moment during Plan at most workerCount Stat / extractor   *)
(* calls are in progress, where workerCount is ExifWorkers when it is      *)
(* positive and the host CPU count otherwise, and never less than 1; no    *)
(* candidate is processed by two workers.                                  *)
(***************************************************************************)
\* the worker count the claim names
ConfiguredWorkers == IF ExifWorkers > 0 THEN ExifWorkers ELSE NumCPU

\* the workers with a Stat / extractor call in progress
BusyWorkers == { w \in DOMAIN wk : wk[w].pc = "busy" }

\* the workers that hold a candidate: being processed, or its result not yet sent
HoldingWorkers == { w \in DOMAIN wk : wk[w].pc \in {"busy", "send"} }

C24_BoundedWorkers ==
  /\ [] ( PoolStarted =>
            /\ ConfiguredWorkers >= 1
            /\ Len(wk) = ConfiguredWorkers
            /\ Cardinality(BusyWorkers) <= ConfiguredWorkers
            /\ \A v, w \in HoldingWorkers : wk[v].path = wk[w].path => v = w
            /\ \A i, j \in 1..Len(pathsToProcess) :
                 pathsToProcess[i] = pathsToProcess[j] => i = j )
  /\ [][ \A w \in DOMAIN wk \cap DOMAIN wk' :
           (wk[w].pc # "busy" /\ wk'[w].pc = "busy") =>
             /\ wk[w].pc = "recv"
             /\ nextJob <= Len(pathsToProcess)
             /\ wk'[w].path = pathsToProcess[nextJob]
             /\ nextJob' = nextJob + 1
             /\ \A v \in DOMAIN wk \ {w} : wk'[v] = wk[v] ]_vars

\* with ExifWorkers 0 both workers of a two-CPU host are processing a candidate
C24_Witness ==
  /\ ExifWorkers = 0
  /\ Cardinality(BusyWorkers) = 2
  /\ \E v, w \in BusyWorkers : wk[v].path # wk[w].path


(***************************************************************************)
(* C25. In a scan that completes without error or cancellation, every      *)
(* candidate path is handed to exactly one worker and yields exactly one   *)
(* result, and the collector has received all len(pathsToProcess) results  *)
(* before Items is sorted; no result is lost or received twice.            *)
(***************************************************************************)
\* scan has returned without an error
ScanComplete == PlanReturned /\ planErr \in {"", "exists"}

\* the candidates whose result carries a FileMeta
KeptCandidates == { e \in Candidates : PassesDateFilter(e) }

C25_OneResultPerCandidate ==
  /\ [] ( ScanComplete =>
            /\ collected = Len(pathsToProcess)
            /\ nextJob = Len(pathsToProcess) + 1
            /\ HoldingWorkers = {}
            /\ { pathsToProcess[i] : i \in 1..Len(pathsToProcess) }
                 = { e.path : e \in Candidates }
            /\ Len(pathsToProcess) = Cardinality(Candidates)
            /\ statCalls = { e.path : e \in Candidates }
            /\ { metas[i].SourcePath : i \in 1..Len(metas) }
                 = { e.path : e \in KeptCandidates }
            /\ Len(metas) = Cardinality(KeptCandidates) )
  /\ [][ collected' = collected + 1 =>
           \E w \in DOMAIN wk :
             /\ wk[w].pc = "send"
             /\ wk'[w].pc = "recv"
             /\ \A v \in DOMAIN wk \ {w} : wk'[v] = wk[v] ]_vars
  /\ [][ \A w \in DOMAIN wk \cap DOMAIN wk' :
           (wk[w].pc = "send" /\ wk'[w] # wk[w]) =>
             (collected' = collected + 1 \/ planErr' \notin {"", "exists"}) ]_vars
  /\ [][ (pc = "collect" /\ pc' # "collect" /\ planErr' \in {"", "exists"}) =>
           collected = Len(pathsToProcess) ]_vars

\* a completed scan of two candidates, one kept and one skipped by date
C25_Witness ==
  /\ ScanComplete
  /\ Len(pathsToProcess) = 2
  /\ collected = 2
  /\ Len(metas) = 1


(***************************************************************************)
(* C26. If FS.Stat fails for any candidate, Plan returns a Stat error with *)
(* an empty CopyPlan (no Items, counts or warnings), discarding every      *)
(* result collected before the failure.                                    *)
(***************************************************************************)
\* FS.Stat has failed for a candidate
StatFailed == \E p \in statCalls : ~EntryAt(p).statOk

\* a worker holds the result of a failed Stat call for the collector
StatErrorPending == \E w \in DOMAIN wk : wk[w].pc = "send" /\ wk[w].res.err = "stat"

\* scan returns, and Plan with it
ScanReturns == pc = "collect" /\ pc' # "collect"

\* C26 as claimed
C26_StatErrorReturned ==
  [][ (ScanReturns /\ StatErrorPending) => (planErr' = "stat" /\ plan' = EmptyPlan) ]_vars

\* C26 as amended: if FS.Stat fails for a candidate, Plan returns no plan: when it
\* returns, it returns an error and an empty CopyPlan, discarding every result
\* collected before, and the error is the Stat error unless the context was
\* cancelled, when it can be the context's error another worker reported first.
C26_StatErrorFatal ==
  /\ [][ (ScanReturns /\ StatErrorPending) =>
           /\ plan' = EmptyPlan
           /\ planErr' \in {"stat", "canceled"}
           /\ ~cancelled => planErr' = "stat" ]_vars
  /\ [] ( (PlanReturned /\ StatFailed) =>
            (plan = EmptyPlan /\ planErr \in {"stat", "canceled"}) )
  /\ [] ( planErr = "stat" => (plan = EmptyPlan /\ StatFailed) )

\* Stat failed for the second candidate: the first one's FileMeta is discarded
C26_Witness ==
  /\ planErr = "stat"
  /\ PlanReturned
  /\ ~cancelled
  /\ collected = 1
  /\ Len(metas) = 1
  /\ plan = EmptyPlan

(***************************************************************************)
(* C27. When the extractor fails for a file with an error that is          *)
(* context.Canceled or context.DeadlineExceeded, Plan returns that error   *)
(* and no plan; for any other extractor error the file's capture time is   *)
(* set to its modification time, a warning naming the file is produced,    *)
(* and the scan continues with the remaining candidates.                   *)
(***************************************************************************)
\* a worker holds a cancellation error of the extractor for the collector
CancelErrorPending ==
  \E w \in DOMAIN wk : wk[w].pc = "send" /\ wk[w].res.err = "canceled"

\* the candidates the extractor is asked about and has no date for
NoDateFiles == { e \in Candidates : e.statOk /\ ~OlderThanStart(e) /\ e.exif = <<>> }

\* the plan's item for the file e has capture time t
ItemTakenAt(e, t) ==
  \E i \in 1..Len(plan.Items) :
    /\ plan.Items[i].FileMeta.SourcePath = e.path
    /\ plan.Items[i].FileMeta.TakenAt = t

\* the plan holds the warning naming the file e
Warned(e) == \E i \in 1..Len(plan.Warnings) : plan.Warnings[i] = WarningFor(e.path)

WalkErrorInTree == \E e \in entries : e.kind = "err"

C28_WalkErrorFatal ==
  /\ (planErr = "walk") =>
       /\ PlanReturned
       /\ plan = EmptyPlan
       /\ pathsToProcess = <<>>
       /\ wk = <<>>
       /\ nextJob = 1
       /\ collected = 0
       /\ scanProgress = <<>>
       /\ statCalls = {}
       /\ existsCalls = {}
       /\ exifCalls = {}
  /\ (PlanReturned /\ WalkErrorInTree /\ planErr # "config") => planErr = "walk"

\* the walk failed after it had delivered a RAW file
C28_Witness ==
  /\ planErr = "walk"
  /\ rawPaths # <<>>
  /\ plan = EmptyPlan

(***************************************************************************)
(* C29. deriveRange returns (startDate, endDate) unchanged when at least   *)
(* one of them is non-nil; when both are nil it returns the minimum and    *)
(* the maximum TakenAt over Items, for any order of the items, and         *)
(* (nil, nil) when Items is empty.                                         *)
(***************************************************************************)
C29_DeriveRange ==
  (call.fn = "deriveRange" /\ ret # <<>>) =>
    IF call.start # <<>> \/ call.end # <<>>
      THEN ret[1] = <<call.start, call.end>>
      ELSE IF call.items = <<>>
        THEN ret[1] = << <<>>, <<>> >>
        ELSE ret[1] = << <<MinTakenAt(call.items)>>, <<MaxTakenAt(call.items)>> >>

\* three items with neither the least first nor the greatest last, both bounds nil
C29_Witness ==
  /\ call.fn = "deriveRange"
  /\ ret # <<>>
  /\ call.start = <<>>
  /\ call.end = <<>>
  /\ Len(call.items) = 3
  /\ call.items[1].FileMeta.TakenAt = 2
  /\ call.items[2].FileMeta.TakenAt = 3
  /\ call.items[3].FileMeta.TakenAt = 1
  /\ ret[1] = << <<1>>, <<3>> >>

(***************************************************************************)
(* C30. In a plan returned by a successful Plan, every element of          *)
(* OverrideItems is an element of Items, in the same relative order, and   *)
(* RawOverrides + JpegOverrides equals len(OverrideItems); with            *)
(* AllowOverride false, OverrideItems is empty, both counts are 0 and no   *)
(* existence check is made after the scan phase.                           *)
(***************************************************************************)
\* a can be obtained from b by leaving elements out
RECURSIVE IsSubsequence(_, _)
IsSubsequence(a, b) ==
  IF a = <<>> THEN TRUE
  ELSE IF b = <<>> THEN FALSE
  ELSE IF Head(a) = Head(b) THEN IsSubsequence(Tail(a), Tail(b))
  ELSE IsSubsequence(a, Tail(b))

C30_OverrideItems ==
  /\ [] ( PlanOk =>
            /\ IsSubsequence(plan.OverrideItems, plan.Items)
            /\ plan.RawOverrides + plan.JpegOverrides = Len(plan.OverrideItems)
            /\ ~AllowOverride =>
                 /\ plan.OverrideItems = <<>>
                 /\ plan.RawOverrides = 0
                 /\ plan.JpegOverrides = 0
                 /\ OverrideExistsCalls(plan.Items) = {} )
  /\ [][ (~AllowOverride /\ ScanReturns) => existsCalls' = existsCalls ]_vars

\* a plan of two items whose second item alone is an override
C30_Witness ==
  /\ PlanOk
  /\ AllowOverride
  /\ Len(plan.Items) = 2
  /\ plan.OverrideItems = << plan.Items[2] >>
  /\ plan.RawOverrides + plan.JpegOverrides = 1


(***************************************************************************)
(* C31. During Plan no two goroutines access the same mutable variable     *)
(* without a channel handoff between them: the RAW-base-name set is        *)
(* written only during the walk, before any worker starts, and is never    *)
(* accessed by a worker, and the metas, warnings and skip counters are     *)
(* written only by the collector.                                          *)
(***************************************************************************)
\* a step of scan's own goroutine in its collector loop: it receives the result
\* one worker sends, and no worker does anything else in that step
CollectorReceives ==
  /\ pc = "collect"
  /\ \E w \in DOMAIN wk :
       /\ wk[w].pc = "send"
       /\ wk' = [wk EXCEPT ![w] = IdleWorker]

\* a step of a worker goroutine: it takes a path, processes it, or leaves its loop
WorkerSteps ==
  \E w \in DOMAIN wk :
    /\ wk[w].pc \in {"recv", "busy"}
    /\ wk'[w] # wk[w]

C31_NoSharedMutation ==
  [][ /\ (<<rawPaths, jpegPaths, rawBaseNames>>' # <<rawPaths, jpegPaths, rawBaseNames>>) =>
           (pc = "walk" /\ ~PoolStarted)
      /\ (<<pathsToProcess, skippedJPEGs, skippedRAWsDupl>>' #
            <<pathsToProcess, skippedJPEGs, skippedRAWsDupl>>) =>
           (pc = "walk" /\ ~PoolStarted)
      /\ (<<metas, warnings, skippedRAWsDate, collected, scanProgress>>' #
            <<metas, warnings, skippedRAWsDate, collected, scanProgress>>) =>
           CollectorReceives
      /\ WorkerSteps =>
           UNCHANGED <<walkVars, filterVars, collectVars, planVars>> ]_vars

\* the collector holds one result while a worker processes another candidate, after
\* a walk that filled the RAW-base-name set
C31_Witness ==
  /\ pc = "collect"
  /\ rawBaseNames # {}
  /\ collected = 1
  /\ Len(metas) = 1
  /\ \E w \in DOMAIN wk : wk[w].pc = "busy"

(***************************************************************************)
(* C32. After a successful Plan every walked RAW file is accounted for     *)
(* exactly once: RawCount + SkippedRAWsDate + SkippedRAWsDupl equals the   *)
(* number of RAW files found by the walk, and no file contributes to more  *)
(* than one of RawCount, JpegCount, SkippedJPEGs, SkippedRAWsDate and      *)
(* SkippedRAWsDupl.                                                        *)
(***************************************************************************)
\* the files of the kept class that are items of the plan
ItemFiles(class) == { e \in class : e.path \in ItemPaths }

\* the RAW candidates the date filter excludes
DateSkippedRaws == { e \in RawFiles \cap Candidates : ~PassesDateFilter(e) }

C32_RawFilesAccounted ==
  PlanOk =>
    /\ plan.RawCount + plan.SkippedRAWsDate + plan.SkippedRAWsDupl =
         Cardinality(RawFiles)
    /\ Len(rawPaths) = Cardinality(RawFiles)
    \* each counter counts a set of files, and the five sets are disjoint
    /\ plan.RawCount = Cardinality(ItemFiles(RawFiles))
    /\ plan.JpegCount = Cardinality(ItemFiles(JpegFiles))
    /\ plan.SkippedJPEGs = Cardinality(PairedJpegs)
    /\ plan.SkippedRAWsDate = Cardinality(DateSkippedRaws)
    /\ plan.SkippedRAWsDupl = Cardinality(RawFiles \cap DroppedAsDuplicate)
    /\ ItemFiles(RawFiles) \cap DateSkippedRaws = {}
    /\ ItemFiles(RawFiles) \cap DroppedAsDuplicate = {}
    /\ DateSkippedRaws \cap DroppedAsDuplicate = {}
    /\ ItemFiles(JpegFiles) \cap PairedJpegs = {}
    /\ plan.RawCount + plan.JpegCount = Len(plan.Items)
    /\ plan.RawCount + plan.JpegCount + plan.SkippedJPEGs + plan.SkippedRAWsDate
         + plan.SkippedRAWsDupl <= Cardinality(Files)

\* two RAW files, one an item and one skipped by the date filter
C32_Witness ==
  /\ PlanOk
  /\ Cardinality(RawFiles) = 2
  /\ plan.RawCount = 1
  /\ plan.SkippedRAWsDate = 1
  /\ plan.SkippedRAWsDupl = 0


(***************************************************************************)
(* C33. After Plan returns, whether with a plan or with an error, the      *)
(* submitter goroutine and every worker goroutine eventually terminate:    *)
(* none stays blocked forever sending on the results channel or on the     *)
(* jobs channel, and the jobs channel is closed exactly once.              *)
(***************************************************************************)
\* the submitter has returned (and its deferred close(jobs) has run) and every
\* worker has left its range loop; true as well when scan started no goroutine
PoolTerminated ==
  PoolStarted => (jobsClosed /\ \A w \in DOMAIN wk : wk[w].pc = "exit")

C33_GoroutinesTerminate == PlanReturned ~> PoolTerminated


(***************************************************************************)
(* C34. After a successful Plan, Warnings contains exactly one entry for   *)
(* each file in Items whose extractor call failed non-fatally and no       *)
(* other entries; a file that fell back to its modification time and was   *)
(* then skipped by the date filter contributes no warning.                 *)
(***************************************************************************)
\* the files in Items whose extractor call failed for want of a date
FallbackItems ==
  { e \in Files : e.path \in ItemPaths /\ e.path \in exifCalls /\ e.exif = <<>> }

\* the files that fell back to the modification time and were then skipped
FallbackSkipped ==
  { e \in Files : e.path \in exifCalls /\ e.exif = <<>> /\ e.path \notin ItemPaths }

\* how many entries of Warnings are the text w
WarningCount(w) == Cardinality({ i \in 1..Len(plan.Warnings) : plan.Warnings[i] = w })

C34_WarningsMatchFallbacks ==
  PlanOk =>
    /\ Len(plan.Warnings) = Cardinality(FallbackItems)
    /\ \A i \in 1..Len(plan.Warnings) :
         \E e \in FallbackItems : plan.Warnings[i] = WarningFor(e.path)
    /\ \A e \in FallbackItems :
         WarningCount(WarningFor(e.path)) =
           Cardinality({ f \in FallbackItems : WarningFor(f.path) = WarningFor(e.path) })
    /\ \A e \in FallbackSkipped :
         WarningCount(WarningFor(e.path)) =
           Cardinality({ f \in FallbackItems : WarningFor(f.path) = WarningFor(e.path) })

\* one file without a date is an item with its warning, another was skipped by
\* the date filter after the fallback
C34_Witness ==
  /\ PlanOk
  /\ Cardinality(FallbackItems) = 1
  /\ Cardinality(FallbackSkipped) = 1
  /\ Len(plan.Warnings) = 1


(***************************************************************************)
(* C35. SkippedJPEGs depends only on the file names found by the walk: a   *)
(* JPEG with a RAW sibling is dropped and counted even when that RAW is    *)
(* itself excluded by the date filter or dropped as a target duplicate,    *)
(* and regardless of the date bounds, the override setting and whether     *)
(* the JPEG's own target exists.                                           *)
(***************************************************************************)
\* the paths phase 2 handed to the pool
SubmittedPaths == { pathsToProcess[i] : i \in 1..Len(pathsToProcess) }

C35_SkippedJpegsByNameOnly ==
  /\ PoolStarted =>
       /\ skippedJPEGs = Cardinality(PairedJpegs)
       /\ \A j \in PairedJpegs : j.path \notin SubmittedPaths
  /\ PlanOk =>
       /\ plan.SkippedJPEGs = Cardinality(PairedJpegs)
       /\ \A j \in PairedJpegs : j.path \notin ItemPaths

\* the JPEG is dropped and counted although its RAW sibling is no item: it was
\* dropped as a target duplicate or excluded by the date filter
C35_Witness ==
  /\ PlanOk
  /\ plan.SkippedJPEGs = 1
  /\ plan.Items = <<>>
  /\ plan.SkippedRAWsDupl + plan.SkippedRAWsDate = 1


(***************************************************************************)
(* C36. With AllowOverride false, when FS.Exists returns an error for a    *)
(* candidate's target path the candidate is treated as absent from the     *)
(* target: it stays a candidate and Plan does not fail because of that     *)
(* error; with AllowOverride true, an Exists error during override         *)
(* detection makes Plan return that error with an empty CopyPlan.          *)
(***************************************************************************)
\* the files phase 2 considers whose target path FS.Exists fails for
ExistsErrorFiles == { e \in Considered : e.existsErr }

\* an item's target path is one FS.Exists fails for
ExistsErrorAmongItems ==
  \E e \in ExistsErrorFiles :
    e.statOk /\ PassesDateFilter(e) /\ TargetOf(e.path) \in existsCalls

C37_RangeBoundsItems ==
  PlanOk =>
    /\ plan.RangeStart # <<>> =>
         \A i \in 1..Len(plan.Items) : plan.RangeStart[1] <= plan.Items[i].FileMeta.TakenAt
    /\ plan.RangeEnd # <<>> =>
         \A i \in 1..Len(plan.Items) : plan.Items[i].FileMeta.TakenAt <= plan.RangeEnd[1]
    /\ (startDate = <<>> /\ endDate = <<>> /\ plan.Items # <<>>) =>
         /\ plan.RangeStart = << plan.Items[1].FileMeta.TakenAt >>
         /\ plan.RangeEnd = << plan.Items[Len(plan.Items)].FileMeta.TakenAt >>

\* an explicit end bound, kept as RangeEnd, with two items of which one lies on it
C37_Witness ==
  /\ PlanOk
  /\ startDate = <<>>
  /\ endDate # <<>>
  /\ plan.RangeStart = <<>>
  /\ plan.RangeEnd = endDate
  /\ Len(plan.Items) = 2
  /\ plan.Items[1].FileMeta.TakenAt < endDate[1]
  /\ plan.Items[2].FileMeta.TakenAt = endDate[1]


SelectionKeyStep ==
  /\ m' = [m EXCEPT !.confirmSelection = ~m.confirmSelection]
  /\ UNCHANGED <<cmds, prog, planGo, runPc, executeCopyCalls, executeCalls, confirmed>>

\* the number of true entries of a sequence of booleans
CountTrue(q) == Cardinality({ i \in 1..Len(q) : q[i] })

C39_SelectionAndOverrides ==
  /\ [] ( m.Phase = "PhaseScanning" => ~m.confirmSelection )
  /\ [][ m'.confirmSelection # m.confirmSelection =>
           (m.Phase = "PhaseConfirm" /\ SelectionKeyStep) ]_vars
  /\ [] ( CountTrue(executeCopyCalls) <= CountTrue(confirmed) )

\* Enter was pressed on No, the selection was moved to Yes and Enter was pressed
\* again: of the two ExecuteCopy calls one includes the overrides
C39_Witness ==
  /\ confirmed = <<FALSE, TRUE>>
  /\ Len(executeCopyCalls) = 2
  /\ CountTrue(executeCopyCalls) = 1


(***************************************************************************)
(* C40. Plan never calls FS.CopyFile or FS.MkdirAll: the only file-system  *)
(* operations it performs are WalkDir, Stat and Exists, so the source and  *)
(* target trees are left unchanged by planning, on success and on every    *)
(* error path.                                                             *)
(***************************************************************************)
\* Plan is running or has returned, and Execute has not been called
BeforeExecute == pc \in {"walk", "collect", "done"}

C40_PlanningChangesNothing ==
  /\ [] ( BeforeExecute =>
            /\ copyCalls = <<>>
            /\ copyProgress = <<>>
            /\ mkdirCalls = 0
            /\ targetFiles = InitialTargets )
  /\ [][ (pc \in {"walk", "collect"}) =>
           UNCHANGED <<entries, targetFiles, copyCalls, mkdirCalls>> ]_vars
  /\ [][ entries' = entries ]_vars

\* Plan has returned a plan of two items after Stat, Exists and extractor calls,
\* and the target tree is the one it started with
C40_Witness ==
  /\ pc = "done"
  /\ PlanOk
  /\ Len(plan.Items) = 2
  /\ plan.OverrideItems # <<>>
  /\ Cardinality(statCalls) = 2
  /\ existsCalls # {}
  /\ targetFiles = InitialTargets
  /\ copyCalls = <<>>

====
